---------------------------- MODULE Spec2Model ----------------------------
(***************************************************************************)
(* Real-time capture-and-alert core of the intrusion detector:             *)
(*   RealtimeDetector   (inference/realtime_detector.py)                   *)
(*   AlertManager       (inference/alert_manager.py)                       *)
(*   MultiInterfaceMonitor (inference/multi_interface_monitor.py)          *)
(*                                                                         *)
(* Units.  Anomaly scores are integers in units of 1e-5 (100000 = 1.0),    *)
(* threat scores integers in units of 0.01 (10000 = 100.0).  The clock     *)
(* `now` counts seconds.                                                   *)
(***************************************************************************)
EXTENDS Integers, Sequences, FiniteSets, TLC

VARIABLES
    now,              \* wall clock (datetime.now() / time.time())
    cfg,              \* configuration and collaborators fixed at construction
    stats,            \* RealtimeDetector.stats
    buffer,           \* RealtimeDetector.buffer (deque(maxlen=buffer_size))
    db,               \* rows of the detections table (DatabaseManager)
    ret,              \* what the last process_packet call returned
    alerts,           \* AlertManager.alerts (deque(maxlen=1000))
    alert_history,    \* AlertManager.alert_history
    last_alert_time,  \* AlertManager.last_alert_time
    am_stats,         \* AlertManager.stats
    notified,         \* channel invocations, in order
    calls,            \* history: the last AlertManager call, the number of
                      \* acknowledge/resolve calls (marks) and, per key,
                      \* when an alert with that key was last returned
    sev,              \* threat enrichment and severity computation: a
                      \* detection with its inputs and output, or (SpecCache)
                      \* a provider with its cache
    cap,              \* locals and position of start_packet_capture
    env,              \* environment of the capture: interface state
    running,          \* RealtimeDetector.running
    mon               \* MultiInterfaceMonitor, its main thread and workers

vars == <<now, cfg, stats, buffer, db, ret, alerts, alert_history,
          last_alert_time, am_stats, notified, calls, sev, cap, env,
          running, mon>>

detVars == <<stats, buffer, db, ret>>
amVars  == <<alerts, alert_history, last_alert_time, am_stats, notified, calls>>

-----------------------------------------------------------------------------
(* Bounds of the model *)

MaxTime == 5          \* Spec, SpecAM: the clock stops advancing here
MaxPackets == 3       \* Spec: process_packet calls per run
MaxMarks == 2         \* SpecAck: acknowledge_alert / resolve_alert calls per run
MaxAckAlerts == 3     \* SpecAck: alerts created per run
alerts_maxlen == 2    \* self.alerts = deque(maxlen=1000), scaled down
MaxAlerts == 3        \* SpecAM: alerts created per run
buffer_size == 2      \* realtime.buffer_size (configurable, default 1000)
alert_cooldown == 3   \* alerts.alert_cooldown (configurable, default 60)

(* Program constants *)

threshold == 85000    \* realtime.threshold default 0.85

None == [kind |-> "None"]

-----------------------------------------------------------------------------
(* Helpers for Python containers *)

DequeAppend_unbounded(q, x, maxlen) == Append(q, x)

\* collections.deque.append with maxlen
DequeAppend(q, x, maxlen) ==
    IF Len(q) >= maxlen THEN Tail(q) \o <<x>> ELSE Append(q, x)

\* the f-string formats of the alert description: {score:.4f}, {threat:.1f}
Fmt4(score) == (score + 5) \div 10
Fmt1(threat) == (threat + 5) \div 10

-----------------------------------------------------------------------------
(* AlertManager *)

\* __init__: the alert storage and the statistics are empty
AMInit ==
    /\ alerts = <<>>
    /\ alert_history = <<>>
    /\ last_alert_time = <<>>
    /\ am_stats = [total_alerts |-> 0, high_severity |-> 0,
                   medium_severity |-> 0, low_severity |-> 0]
    /\ notified = <<>>
    /\ calls = [last |-> None, fired_at |-> <<>>, marks |-> 0]

\* _generate_alert_id: "ALERT-" + the clock reading
_generate_alert_id == now

_is_in_cooldown_le(alert_type) ==
    /\ alert_type \in DOMAIN last_alert_time
    /\ now - last_alert_time[alert_type] <= alert_cooldown

_is_in_cooldown(alert_type) ==
    /\ alert_type \in DOMAIN last_alert_time
    /\ now - last_alert_time[alert_type] < alert_cooldown

\* whether create_alert returns None before building the alert
Suppressed(alert_data) ==
    \/ ~cfg.alerts_enabled
    \/ _is_in_cooldown(alert_data.description)

NewAlert_low(alert_data) ==
    [kind |-> "alert",
     id |-> _generate_alert_id,
     timestamp |-> alert_data.timestamp,
     severity |-> "low",
     anomaly_score |-> alert_data.anomaly_score,
     description |-> alert_data.description,
     status |-> "active"]

\* the alert object create_alert builds
NewAlert(alert_data) ==
    [kind |-> "alert",
     id |-> _generate_alert_id,
     timestamp |-> alert_data.timestamp,
     severity |-> alert_data.severity,
     anomaly_score |-> alert_data.anomaly_score,
     description |-> alert_data.description,
     status |-> "active"]

\* the value create_alert returns
create_alert_result(alert_data) ==
    IF Suppressed(alert_data) THEN None ELSE NewAlert(alert_data)

_notify_email_unguarded == IF cfg.email.enabled THEN "smtp" ELSE "none"

\* _notify_email: what it attempts, an SMTP session ("smtp") or nothing;
\* it returns early unless alerts.email is enabled and has a sender, a
\* password and recipients
_notify_email ==
    IF ~cfg.email.enabled THEN "none"
    ELSE IF \/ ~cfg.email.sender_email
            \/ ~cfg.email.sender_password
            \/ ~cfg.email.recipients
    THEN "none"
    ELSE "smtp"

\* _notify_webhook: an HTTP POST ("http") or nothing; it returns early
\* unless alerts.webhook is enabled and has a url
_notify_webhook ==
    IF ~cfg.webhook.enabled THEN "none"
    ELSE IF ~cfg.webhook.url THEN "none"
    ELSE "http"

\* what the channel a method names attempts over the network
Attempt(method) ==
    IF method = "email" THEN _notify_email
    ELSE IF method = "webhook" THEN _notify_webhook
    ELSE "none"

\* the position of the first configured method that raises, else the length
FirstFailing(methods) ==
    IF \E i \in 1..Len(methods) : methods[i] \in cfg.failing
    THEN CHOOSE i \in 1..Len(methods) :
           /\ methods[i] \in cfg.failing
           /\ \A j \in 1..(i - 1) : methods[j] \notin cfg.failing
    ELSE Len(methods)

_send_notifications_abort(alert) ==
    [i \in 1..FirstFailing(cfg.notification_methods) |->
        [method |-> cfg.notification_methods[i], id |-> alert.id,
         raised |-> cfg.notification_methods[i] \in cfg.failing,
         io |-> Attempt(cfg.notification_methods[i])]]

\* _send_notifications: one invocation per configured method, in order; an
\* exception of a method (raised) is caught and logged inside the loop
_send_notifications(alert) ==
    [i \in 1..Len(cfg.notification_methods) |->
        [method |-> cfg.notification_methods[i], id |-> alert.id,
         raised |-> cfg.notification_methods[i] \in cfg.failing,
         io |-> Attempt(cfg.notification_methods[i])]]

\* stats[f"{severity}_severity"] += 1 when that key exists
BumpSeverity(st, severity) ==
    IF severity = "high" THEN [st EXCEPT !.high_severity = @ + 1]
    ELSE IF severity = "medium" THEN [st EXCEPT !.medium_severity = @ + 1]
    ELSE IF severity = "low" THEN [st EXCEPT !.low_severity = @ + 1]
    ELSE st

\* last_alert_time[alert_type] = datetime.now()
SetLastAlertTime(alert_type) ==
    [k \in DOMAIN last_alert_time \cup {alert_type} |->
        IF k = alert_type THEN now ELSE last_alert_time[k]]

\* history record of a call: its key, the severity asked for, its time, the
\* time an alert with the same key was last returned before it (-1: never),
\* the value it returned, whether that is an alert, and how many channel
\* invocations it made
Called(alert_data, returned, sent) ==
    [kind |-> "call", key |-> alert_data.description,
     severity |-> alert_data.severity, time |-> now,
     prev |-> IF alert_data.description \in DOMAIN calls.fired_at
              THEN calls.fired_at[alert_data.description] ELSE -1,
     returned |-> returned, fired |-> returned # None, sent |-> sent]

create_alert_extends(alert_data) ==
    LET alert == NewAlert(alert_data)
        sent == _send_notifications(alert)
    IN
    IF Suppressed(alert_data)
    THEN /\ calls' = [calls EXCEPT !.last = Called(alert_data, None, 0)]
         /\ last_alert_time' = IF cfg.alerts_enabled
                                THEN SetLastAlertTime(alert_data.description)
                                ELSE last_alert_time
         /\ UNCHANGED <<alerts, alert_history, am_stats, notified>>
    ELSE /\ alerts' = DequeAppend(alerts, alert, alerts_maxlen)
         /\ alert_history' = Append(alert_history, alert)
         /\ am_stats' = BumpSeverity([am_stats EXCEPT !.total_alerts = @ + 1],
                                     alert.severity)
         /\ last_alert_time' = SetLastAlertTime(alert_data.description)
         /\ notified' = notified \o sent
         /\ calls' = [last |-> Called(alert_data, alert, Len(sent)),
                      fired_at |-> [k \in DOMAIN calls.fired_at
                                          \cup {alert_data.description} |->
                                      IF k = alert_data.description THEN now
                                      ELSE calls.fired_at[k]],
                      marks |-> calls.marks]

create_alert(alert_data) ==
    LET alert == NewAlert(alert_data)
        sent == _send_notifications(alert)
    IN
    IF Suppressed(alert_data)
    THEN /\ calls' = [calls EXCEPT !.last = Called(alert_data, None, 0)]
         /\ UNCHANGED <<alerts, alert_history, last_alert_time, am_stats, notified>>
    ELSE /\ alerts' = DequeAppend(alerts, alert, alerts_maxlen)
         /\ alert_history' = Append(alert_history, alert)
         /\ am_stats' = BumpSeverity([am_stats EXCEPT !.total_alerts = @ + 1],
                                     alert.severity)
         /\ last_alert_time' = SetLastAlertTime(alert_data.description)
         /\ notified' = notified \o sent
         /\ calls' = [last |-> Called(alert_data, alert, Len(sent)),
                      fired_at |-> [k \in DOMAIN calls.fired_at
                                          \cup {alert_data.description} |->
                                      IF k = alert_data.description THEN now
                                      ELSE calls.fired_at[k]],
                      marks |-> calls.marks]

-----------------------------------------------------------------------------
(* RealtimeDetector: scoring and anomaly handling *)

\* __init__: empty buffer, zeroed counters
DetInit ==
    /\ stats = [total_packets |-> 0, anomalies_detected |-> 0,
                alerts_generated |-> 0]
    /\ buffer = <<>>
    /\ db = <<>>
    /\ ret = None

\* combined_score = score * 0.6 + threat_score / 100.0 * 0.4, scaled by 1e6
combined_score(score, threat_score) == 6 * score + 40 * threat_score

Severity_strict(score, threat_score) ==
    IF combined_score(score, threat_score) > 900000 \/ threat_score > 7500
    THEN "high"
    ELSE IF combined_score(score, threat_score) > 700000 \/ threat_score > 5000
    THEN "medium"
    ELSE "low"

Severity_flipped(score, threat_score) ==
    IF combined_score(score, threat_score) >= 900000 \/ threat_score >= 7500
    THEN "high"
    ELSE IF combined_score(score, threat_score) >= 700000 \/ threat_score <= 5000
    THEN "medium"
    ELSE "low"

\* the if/elif/else cascade of _handle_anomaly
Severity(score, threat_score) ==
    IF combined_score(score, threat_score) >= 900000 \/ threat_score >= 7500
    THEN "high"
    ELSE IF combined_score(score, threat_score) >= 700000 \/ threat_score >= 5000
    THEN "medium"
    ELSE "low"

\* f"Anomaly detected with score {score:.4f}, threat score {threat_score:.1f}"
Description(score, threat_score) == <<"Anomaly", Fmt4(score), Fmt1(threat_score)>>

\* the alert_data dict _handle_anomaly hands to create_alert; its timestamp
\* is the result's, which was taken in the same call (a result is modelled
\* by its sequence number seq, its verdict and its score)
AlertData(result, threat_score) ==
    [timestamp |-> now,
     severity |-> Severity(result.anomaly_score, threat_score),
     anomaly_score |-> result.anomaly_score,
     description |-> Description(result.anomaly_score, threat_score)]

\* the record _log_detection builds from a result
Row(result, severity) ==
    [seq |-> result.seq, is_anomaly |-> result.is_anomaly,
     anomaly_score |-> result.anomaly_score, severity |-> severity]

_log_detection_front(rows, row) ==
    IF cfg.db_enabled THEN <<row>> \o rows ELSE rows

\* _log_detection / DatabaseManager.log_detection: one INSERT per record
_log_detection(rows, row) == IF cfg.db_enabled THEN Append(rows, row) ELSE rows

\* _handle_anomaly after a successful enrichment: st are the counters at the
\* call, later the rows the caller logs after _handle_anomaly has returned
_handle_anomaly(result, threat_score, st, later) ==
    /\ create_alert(AlertData(result, threat_score))
    /\ stats' = [st EXCEPT !.alerts_generated = @ + 1]
    /\ db' = _log_detection(db, Row(result, Severity(result.anomaly_score,
                                                       threat_score))) \o later

\* the feature vector X: the preprocessor's mapping of the observation, or
\* the zero vector when transform raises (the inner `except Exception`)
X(pkt) == IF pkt.prep = "raise" THEN "zeros" ELSE "mapped"

\* the model's verdict on the prepared feature vector
AnomalyScore(pkt) ==
    IF cfg.has_proba THEN pkt.score
    ELSE IF pkt.pred = 1 THEN 100000 ELSE 0

Prediction(pkt) ==
    IF cfg.has_proba THEN (IF pkt.score > threshold THEN 1 ELSE 0)
    ELSE pkt.pred

Result(pkt, n) ==
    [kind |-> "result", seq |-> n, is_anomaly |-> Prediction(pkt) # 0,
     anomaly_score |-> AnomalyScore(pkt), error |-> FALSE]

\* the dict the except clause of process_packet returns
ErrorResult(n) ==
    [kind |-> "result", seq |-> n, is_anomaly |-> FALSE, anomaly_score |-> 0,
     error |-> TRUE]

\* what a call leaves in ret: the observation, whether the call raised, the
\* value returned, and the history of all calls so far: their number, the
\* number of observations scored strictly above the threshold by
\* predict_proba, and the number of results returned with is_anomaly true
Ret(pkt, raised, value) ==
    LET h == IF ret = None THEN [calls |-> 0, above |-> 0, anomalous |-> 0]
             ELSE ret.history
    IN [pkt |-> pkt, raised |-> raised, value |-> value,
        history |->
          [calls |-> h.calls + 1,
           above |-> h.above + (IF /\ cfg.has_proba
                                    /\ pkt.model = "ok"
                                    /\ pkt.score > threshold
                                 THEN 1 ELSE 0),
           anomalous |-> h.anomalous + (IF /\ value # None
                                           /\ value.is_anomaly
                                        THEN 1 ELSE 0)]]

Rescue_reraise(pkt, n) == Ret(pkt, TRUE, None)

\* except Exception as e: log and return the error result
Rescue(pkt, n) == Ret(pkt, FALSE, ErrorResult(n))

\* process_packet(pkt), followed by the caller logging the rows `later`
\* once it has returned
process_packet_then(pkt, later) ==
    LET n == stats.total_packets + 1
        counted == [stats EXCEPT !.total_packets = n]
        result == Result(pkt, n)
    IN
    IF pkt.model = "raise"
    THEN \* predict / predict_proba raises
         /\ stats' = counted
         /\ ret' = Rescue(pkt, n)
         /\ db' = db \o later
         /\ UNCHANGED buffer
         /\ UNCHANGED amVars
    ELSE IF ~result.is_anomaly
    THEN /\ stats' = counted
         /\ buffer' = DequeAppend(buffer, result, buffer_size)
         /\ db' = _log_detection(db, Row(result, "None")) \o later
         /\ ret' = Ret(pkt, FALSE, result)
         /\ UNCHANGED amVars
    ELSE IF pkt.enrich = "raise"
    THEN \* _handle_anomaly raises before the alert is created
         /\ stats' = [counted EXCEPT !.anomalies_detected = @ + 1]
         /\ ret' = Rescue(pkt, n)
         /\ db' = db \o later
         /\ UNCHANGED buffer
         /\ UNCHANGED amVars
    ELSE /\ _handle_anomaly(result, pkt.threat,
                            [counted EXCEPT !.anomalies_detected = @ + 1],
                            _log_detection(<<>>, Row(result, "None")) \o later)
         /\ buffer' = DequeAppend(buffer, result, buffer_size)
         /\ ret' = Ret(pkt, FALSE, result)

process_packet(pkt) == process_packet_then(pkt, <<>>)

\* an observation together with what its collaborators do with it:
\*   prep   the preprocessor maps it ("ok") or raises on missing fields
\*   model  the model scores it ("ok") or raises
\*   score  predict_proba's anomaly probability, pred predict's label
\*   threat the threat score enrichment yields, enrich whether it raises
Pkt(prep, model, score, pred, threat, enrich) ==
    [prep |-> prep, model |-> model, score |-> score, pred |-> pred,
     threat |-> threat, enrich |-> enrich]

Packets ==
    { Pkt("ok", "ok", 20000, 0, 0, "ok"),
      Pkt("raise", "ok", 20000, 0, 0, "ok"),
      Pkt("raise", "ok", 95000, 1, 0, "ok"),
      Pkt("ok", "raise", 95000, 1, 0, "ok"),
      Pkt("ok", "ok", 85000, -1, 0, "ok"),
      Pkt("ok", "ok", 95004, 1, 0, "ok"),
      Pkt("ok", "ok", 90000, 1, 8000, "ok"),
      Pkt("ok", "ok", 100000, 1, 0, "raise") }

Tick ==
    /\ now < MaxTime
    /\ now' = now + 1
    /\ UNCHANGED <<cfg, stats, buffer, db, ret, alerts, alert_history,
                   last_alert_time, am_stats, notified, calls, sev, cap, env,
                   running, mon>>

ProcessPacket ==
    /\ stats.total_packets < MaxPackets
    /\ \E pkt \in Packets : process_packet(pkt)
    /\ UNCHANGED <<now, cfg, sev, cap, env, running, mon>>

-----------------------------------------------------------------------------
(* Configurations and idle components *)

\* config defaults: alerts enabled, console and log channels, database on;
\* main.py loads the random_forest model, which has predict_proba
DefaultCfg ==
    [alerts_enabled |-> TRUE, has_proba |-> TRUE, db_enabled |-> TRUE,
     notification_methods |-> <<"console", "log">>, failing |-> {},
     email |-> [enabled |-> FALSE, sender_email |-> FALSE,
                sender_password |-> FALSE, recipients |-> FALSE],
     webhook |-> [enabled |-> FALSE, url |-> FALSE]]

SevIdle == sev = None
CapIdle == cap = None /\ env = None /\ running = FALSE
MonIdle == mon = None

-----------------------------------------------------------------------------
(* Spec: one RealtimeDetector fed observations one at a time *)

Init ==
    /\ now = 0
    /\ cfg \in {[DefaultCfg EXCEPT !.alerts_enabled = a, !.has_proba = h] :
                    a \in BOOLEAN, h \in BOOLEAN}
    /\ DetInit /\ AMInit /\ SevIdle /\ CapIdle /\ MonIdle

Next == Tick \/ ProcessPacket

Spec == Init /\ [][Next]_vars

-----------------------------------------------------------------------------
(* SpecAM: one AlertManager called directly, as tests/test_detection.py does *)

AlertInputs ==
    { [timestamp |-> now, severity |-> s, anomaly_score |-> 95000,
       description |-> <<d>>] :
         s \in {"high", "low"},
         d \in {"Test anomaly detected", "Another anomaly"} }

CreateAlert ==
    /\ Len(alert_history) < MaxAlerts
    /\ \E alert_data \in AlertInputs : create_alert(alert_data)
    /\ UNCHANGED <<now, cfg, stats, buffer, db, ret, sev, cap, env, running, mon>>

\* the channel lists and the sets of channels whose notify method raises
MethodLists == { <<"console", "log">>, <<"console", "log", "email", "webhook">> }
FailingSets == SUBSET {"console", "log"}

\* alerts.email / alerts.webhook sections tried with all four methods
\* configured: enabled without recipients and without a url, enabled without
\* a password, and complete (TRUE: the key is present and not empty)
ChannelCfgs ==
    { [email |-> [enabled |-> TRUE, sender_email |-> TRUE,
                  sender_password |-> TRUE, recipients |-> FALSE],
       webhook |-> [enabled |-> TRUE, url |-> FALSE]],
      [email |-> [enabled |-> TRUE, sender_email |-> TRUE,
                  sender_password |-> FALSE, recipients |-> TRUE],
       webhook |-> [enabled |-> FALSE, url |-> TRUE]],
      [email |-> [enabled |-> TRUE, sender_email |-> TRUE,
                  sender_password |-> TRUE, recipients |-> TRUE],
       webhook |-> [enabled |-> TRUE, url |-> TRUE]] }

InitAM ==
    /\ now = 0
    /\ cfg \in {[DefaultCfg EXCEPT !.alerts_enabled = a,
                                   !.notification_methods = m,
                                   !.failing = f] :
                    a \in BOOLEAN, m \in MethodLists, f \in FailingSets}
             \cup
               {[DefaultCfg EXCEPT !.notification_methods =
                                      <<"email", "webhook", "console", "log">>,
                                   !.failing = f,
                                   !.email = c.email, !.webhook = c.webhook] :
                    c \in ChannelCfgs, f \in {{}, {"log"}}}
    /\ DetInit /\ AMInit /\ SevIdle /\ CapIdle /\ MonIdle

NextAM == Tick \/ CreateAlert

SpecAM == InitAM /\ [][NextAM]_vars

-----------------------------------------------------------------------------
(* SpecAck: alerts are created, acknowledged and resolved *)

\* alert[key] = value on a dict
SetField(alert, key, value) ==
    [k \in DOMAIN alert \cup {key} |-> IF k = key THEN value ELSE alert[k]]

FindAlert_first(q, alert_id) ==
    IF q = <<>> THEN 0 ELSE 1

\* `for alert in self.alerts: if alert['id'] == alert_id`: the position of
\* the first alert of the bounded buffer with that id, 0 when there is none
FindAlert(q, alert_id) ==
    IF \E i \in 1..Len(q) : q[i].id = alert_id
    THEN CHOOSE i \in 1..Len(q) :
           /\ q[i].id = alert_id
           /\ \A j \in 1..(i - 1) : q[j].id # alert_id
    ELSE 0

\* history record of an acknowledge_alert or resolve_alert call
Marked(kind, alert_id, returned) ==
    [calls EXCEPT !.last = [kind |-> kind, id |-> alert_id, time |-> now,
                            returned |-> returned],
                  !.marks = @ + 1]

MarkAlert_copy(kind, alert_id, i, marked) ==
    IF i = 0
    THEN /\ calls' = Marked(kind, alert_id, FALSE)
         /\ UNCHANGED <<alerts, alert_history>>
    ELSE /\ alerts' = [alerts EXCEPT ![i] = marked]
         /\ calls' = Marked(kind, alert_id, TRUE)
         /\ UNCHANGED alert_history

\* the loop body of both methods: the alert of the buffer at position i is
\* the object the history holds too, so the history shows the new fields
MarkAlert(kind, alert_id, i, marked) ==
    IF i = 0
    THEN /\ calls' = Marked(kind, alert_id, FALSE)
         /\ UNCHANGED <<alerts, alert_history>>
    ELSE /\ alerts' = [alerts EXCEPT ![i] = marked]
         /\ alert_history' =
                [alert_history EXCEPT
                    ![Len(alert_history) - Len(alerts) + i] = marked]
         /\ calls' = Marked(kind, alert_id, TRUE)

acknowledge_alert(alert_id) ==
    LET i == FindAlert(alerts, alert_id)
    IN MarkAlert("acknowledge", alert_id, i,
                 SetField(SetField(alerts[i], "status", "acknowledged"),
                          "acknowledged_at", now))

resolve_alert(alert_id, resolution_note) ==
    LET i == FindAlert(alerts, alert_id)
    IN MarkAlert("resolve", alert_id, i,
                 SetField(SetField(SetField(alerts[i], "status", "resolved"),
                                   "resolved_at", now),
                          "resolution_note", resolution_note))

get_active_alerts_history ==
    SelectSeq(alert_history, LAMBDA a : a.status = "active")

\* get_active_alerts: the alerts of the bounded buffer with status 'active'
get_active_alerts == SelectSeq(alerts, LAMBDA a : a.status = "active")

\* get_statistics: a copy of the counters plus the number of active alerts
\* (alerts_last_hour is left out)
get_statistics ==
    [total_alerts |-> am_stats.total_alerts,
     high_severity |-> am_stats.high_severity,
     medium_severity |-> am_stats.medium_severity,
     low_severity |-> am_stats.low_severity,
     active_alerts |-> Len(get_active_alerts)]

\* the id of every alert created so far, and one no alert has (-1)
AlertIds == {alert_history[i].id : i \in 1..Len(alert_history)} \cup {-1}
ResolutionNotes == {"false positive"}

\* the alerts of SpecAck: one severity, two cooldown keys
AckInputs == { a \in AlertInputs : a.severity = "high" }

CreateAlertAck ==
    /\ Len(alert_history) < MaxAckAlerts
    /\ \E alert_data \in AckInputs : create_alert(alert_data)
    /\ UNCHANGED <<now, cfg, stats, buffer, db, ret, sev, cap, env, running, mon>>

AcknowledgeAlert ==
    /\ calls.marks < MaxMarks
    /\ \E alert_id \in AlertIds : acknowledge_alert(alert_id)
    /\ UNCHANGED <<now, cfg, stats, buffer, db, ret, last_alert_time, am_stats,
                   notified, sev, cap, env, running, mon>>

ResolveAlert ==
    /\ calls.marks < MaxMarks
    /\ \E alert_id \in AlertIds, note \in ResolutionNotes :
           resolve_alert(alert_id, note)
    /\ UNCHANGED <<now, cfg, stats, buffer, db, ret, last_alert_time, am_stats,
                   notified, sev, cap, env, running, mon>>

InitAck ==
    /\ now = 0
    /\ cfg = DefaultCfg
    /\ DetInit /\ AMInit /\ SevIdle /\ CapIdle /\ MonIdle

NextAck == Tick \/ CreateAlertAck \/ AcknowledgeAlert \/ ResolveAlert

SpecAck == InitAck /\ [][NextAck]_vars

-----------------------------------------------------------------------------
(* SpecSev: the severity rule of _handle_anomaly on a grid of scores *)

ScoreGrid == {5000 * i : i \in 0..20}     \* 0.00, 0.05, ... 1.00
ThreatGrid == {250 * i : i \in 0..40}     \* 0.0, 2.5, ... 100.0

ComputeSeverity ==
    /\ sev.severity = "unset"
    /\ sev' = [sev EXCEPT !.severity = Severity(sev.score, sev.threat_score)]
    /\ UNCHANGED <<now, cfg, stats, buffer, db, ret, alerts, alert_history,
                   last_alert_time, am_stats, notified, calls, cap, env,
                   running, mon>>

InitSev ==
    /\ now = 0
    /\ cfg = DefaultCfg
    /\ sev \in {[kind |-> "severity", score |-> s, threat_score |-> t,
                 severity |-> "unset"] : s \in ScoreGrid, t \in ThreatGrid}
    /\ DetInit /\ AMInit /\ CapIdle /\ MonIdle

NextSev == ComputeSeverity

SpecSev == InitSev /\ [][NextSev]_vars

-----------------------------------------------------------------------------
(* SpecCap: RealtimeDetector.start_packet_capture *)
(*                                                                         *)
(* cap holds the arguments and locals of the call and its position pc:     *)
(*   idle       not called yet                                             *)
(*   sniff      inside scapy's sniff()                                     *)
(*   synthetic  in the synthetic fallback loop                             *)
(*   wait_init  in the initial "wait for the interface" loop               *)
(*   check      at the top of the pyshark loop (periodic interface check)  *)
(*   down_wait  in the "interface went down" wait loop                     *)
(*   create     at "(re)create capture if needed"                          *)
(*   next       at next(capture_iterator, None)                            *)
(*   returned   the call has returned; raised: it has raised               *)
(* packet_count = 0 and duration = 0 stand for None (Python tests both by  *)
(* truth value).  exit records why the call ended.  late and overrun are   *)
(* history flags: a loop iteration began one probe interval or more after  *)
(* the stop signal (late), or at or after start_t + duration (overrun),    *)
(* and the session went on.  probe is the result of the last              *)
(* is_interface_up call, closed_by says why the last capture handle was    *)
(* dropped, created_at is the time of the last attempt to create one if    *)
(* that is less than one probe interval ago, else -1.                      *)

MaxEmitted == 11              \* synthetic observations per run
MaxCapTime == 5               \* SpecCap: the clock stops advancing here
MaxCaptured == 2              \* live packets per run
interface_check_interval == 5
wait_timeout == 300
SyntheticSafetyCap == 10      \* "bounded to 10 packets for safety"

LoopPcs == {"wait_init", "check", "down_wait", "create", "next"}
ActivePcs == LoopPcs \cup {"sniff", "synthetic"}

CapInit ==
    /\ cap = [pc |-> "idle", backend |-> "scapy", packet_count |-> 0,
              duration |-> 0, inject_rate |-> 0, synthetic_delay |-> 0,
              capture |-> FALSE, capture_iterator |-> FALSE, start_t |-> 0,
              packet_count_captured |-> 0, last_interface_check |-> 0,
              packets_since_last_check |-> 0, wait_start |-> 0,
              emitted |-> 0, exit |-> "", late |-> FALSE, overrun |-> FALSE,
              probe |-> "none", closed_by |-> "", created_at |-> -1,
              synth |-> None]
    /\ running = FALSE

\* is_interface_up(interface): `ip addr show` reports UP with an address
is_interface_up == env.up

\* c after a call of is_interface_up
Probed(c) == [c EXCEPT !.probe = IF is_interface_up THEN "up" ELSE "down"]

\* c at time t: an attempt one probe interval old or older is forgotten
Aged(c, t) ==
    IF c.created_at >= 0 /\ t - c.created_at >= interface_check_interval
    THEN [c EXCEPT !.created_at = -1]
    ELSE c

Closed_reset(c, why) ==
    [c EXCEPT !.capture = FALSE, !.capture_iterator = FALSE,
              !.packet_count_captured = 0,
              !.closed_by = IF cap.capture THEN why ELSE @]

\* c after the capture handle, if there is one, was closed and dropped
Closed(c, why) ==
    [c EXCEPT !.capture = FALSE, !.capture_iterator = FALSE,
              !.closed_by = IF cap.capture THEN why ELSE @]

\* the history flags after a step that began a loop iteration and led to c
Iterated(c) ==
    [c EXCEPT
       !.late = @ \/ (/\ env.stop_at >= 0
                      /\ now >= env.stop_at + interface_check_interval
                      /\ c.pc \in ActivePcs),
       !.overrun = @ \/ (/\ cap.duration > 0
                         /\ cap.pc \in {"check", "down_wait"}
                         /\ now - cap.start_t >= cap.duration
                         /\ c.pc \in LoopPcs)]

Returned(why) == [cap EXCEPT !.pc = "returned", !.exit = why]

\* the pyshark loop state set up before `while True`
EnterLoop(c) ==
    [c EXCEPT !.pc = "check", !.capture = FALSE, !.capture_iterator = FALSE,
              !.start_t = now, !.packet_count_captured = 0,
              !.last_interface_check = now, !.packets_since_last_check = 0]

\* the calls explored.  inject_rate is in percent.  pyshark never reads
\* inject_rate or synthetic_delay.  With scapy and no packet_count the
\* injection rate is 0 or 1.0 (every synthetic observation forced) and the
\* delay is fixed, so that the long synthetic runs stay few
CapArgs ==
    { [backend |-> b, packet_count |-> pc, duration |-> d, inject_rate |-> r,
       synthetic_delay |-> sd] :
         b \in {"scapy", "pyshark"}, pc \in {0, 2}, d \in {0, 3},
         r \in {0, 50, 100}, sd \in {0, 1} }

CapArgsOk(a) ==
    IF a.backend = "pyshark" THEN a.inject_rate = 0 /\ a.synthetic_delay = 0
    ELSE IF a.packet_count > 0 THEN a.inject_rate \in {0, 50}
    ELSE /\ a.inject_rate \in {0, 100}
         /\ a.synthetic_delay = (IF a.duration > 0 THEN 1 ELSE 0)

\* the call, up to the first blocking point
StartCapture ==
    /\ cap.pc = "idle"
    /\ \E a \in {x \in CapArgs : CapArgsOk(x)} :
         LET c == [cap EXCEPT !.backend = a.backend,
                              !.packet_count = a.packet_count,
                              !.duration = a.duration,
                              !.inject_rate = a.inject_rate,
                              !.synthetic_delay = a.synthetic_delay]
         IN
         cap' = IF ~env.available[a.backend]
                THEN [c EXCEPT !.pc = "returned", !.exit = "unavailable"]
                ELSE IF a.backend = "scapy"
                THEN [c EXCEPT !.pc = "sniff", !.start_t = now]
                ELSE IF ~is_interface_up
                THEN Probed([c EXCEPT !.pc = "wait_init", !.wait_start = now])
                ELSE Probed(EnterLoop(c))
    /\ UNCHANGED <<now, cfg, env, running, sev, mon>>
    /\ UNCHANGED detVars
    /\ UNCHANGED amVars

\* what the capture backends and the synthetic generator hand to
\* process_packet: an observation the model scores as normal, one it scores
\* as anomalous
CapPkts ==
    { Pkt("raise", "ok", 20000, 0, 0, "ok"),
      Pkt("raise", "ok", 95000, 1, 0, "ok") }
SynthPkts == { Pkt("raise", "ok", 20000, 0, 0, "ok") }

\* round(random.uniform(max(self.threshold, 0.9), 1.0), 4)
SynthScoreLow == IF threshold > 90000 THEN threshold ELSE 90000
SynthScores == { s \in {95000} : s >= SynthScoreLow }

\* one packet delivered by sniff() to prn=_process_packet
SniffPacket ==
    /\ cap.pc = "sniff"
    /\ cap.packet_count_captured < MaxCaptured
    /\ cap.packet_count = 0 \/ cap.packet_count_captured < cap.packet_count
    /\ cap.duration = 0 \/ now - cap.start_t < cap.duration
    /\ \E pkt \in CapPkts : process_packet(pkt)
    /\ cap' = [cap EXCEPT !.packet_count_captured = @ + 1]
    /\ UNCHANGED <<now, cfg, env, running, sev, mon>>

\* sniff() returns: count packets seen, or the timeout has passed
SniffReturns ==
    /\ cap.pc = "sniff"
    /\ \/ cap.packet_count > 0 /\ cap.packet_count_captured >= cap.packet_count
       \/ cap.duration > 0 /\ now - cap.start_t >= cap.duration
    /\ cap' = Returned("sniff_done")
    /\ UNCHANGED <<now, cfg, env, running, sev, mon>>
    /\ UNCHANGED detVars
    /\ UNCHANGED amVars

SyntheticDisabled_never(inject_rate) == FALSE

\* if inject_rate == 0: no synthetic generation
SyntheticDisabled(inject_rate) == inject_rate = 0

\* sniff() raises: stop, or fall back to the synthetic generator
SniffFails ==
    /\ cap.pc = "sniff"
    /\ cap' = IF SyntheticDisabled(cap.inject_rate)
              THEN Returned("sniff_failed")
              ELSE [cap EXCEPT !.pc = "synthetic", !.start_t = now, !.emitted = 0]
    /\ UNCHANGED <<now, cfg, env, running, sev, mon>>
    /\ UNCHANGED detVars
    /\ UNCHANGED amVars

\* random.random() < inject_rate, for a draw that is low (rnd) or high
Below(rnd, inject_rate) == inject_rate >= 100 \/ (rnd /\ inject_rate > 0)

\* the loop's two break tests, after emitted += 1 and the optional sleep
SynthBreak(emitted, t) ==
    \/ cap.packet_count > 0 /\ emitted >= cap.packet_count
    \/ cap.duration > 0 /\ t - cap.start_t >= cap.duration

\* cap after one iteration of the synthetic loop that did not raise
SynthNext ==
    LET emitted == cap.emitted + 1
        t == now + cap.synthetic_delay
    IN Iterated(IF SynthBreak(emitted, t)
                THEN [cap EXCEPT !.emitted = emitted, !.pc = "returned",
                                 !.exit = "synthetic_done"]
                ELSE [cap EXCEPT !.emitted = emitted])

\* c after a synthetic observation was generated: whether it is a port
\* scan, whether its injection draw fell below inject_rate, and whether it
\* was forced into the anomalous branch
Drawn(c, is_port_scan, below, forced) ==
    [c EXCEPT !.synth = [is_port_scan |-> is_port_scan, below |-> below,
                         forced |-> forced]]

\* `inject_rate > 0 and (is_port_scan or random.random() < inject_rate)`
Forced(is_port_scan, below) ==
    cap.inject_rate > 0 /\ (is_port_scan \/ below)

\* one iteration of `while True` of the synthetic fallback
SynthStep ==
    /\ cap.pc = "synthetic"
    /\ cap.emitted < MaxEmitted
    /\ \E is_port_scan \in BOOLEAN, rnd \in BOOLEAN, score \in SynthScores,
          pkt \in SynthPkts, enrich \in {"ok", "raise"} :
         LET n == stats.total_packets + 1
             injected == [kind |-> "result", seq |-> n, is_anomaly |-> TRUE,
                          anomaly_score |-> score, error |-> FALSE]
             counted == [stats EXCEPT !.total_packets = n,
                                      !.anomalies_detected = @ + 1]
         IN
         IF Forced(is_port_scan, Below(rnd, cap.inject_rate))
         THEN IF enrich = "raise"
              THEN \* _handle_anomaly raises out of start_packet_capture
                   /\ stats' = counted
                   /\ cap' = Drawn(Iterated([cap EXCEPT !.pc = "raised",
                                                  !.exit = "handler_raised"]),
                                  is_port_scan, Below(rnd, cap.inject_rate),
                                  TRUE)
                   /\ now' = now
                   /\ UNCHANGED <<buffer, db, ret>>
                   /\ UNCHANGED amVars
              ELSE /\ _handle_anomaly(injected, 0, counted, <<>>)
                   /\ buffer' = DequeAppend(buffer, injected, buffer_size)
                   /\ cap' = Drawn(SynthNext, is_port_scan,
                                  Below(rnd, cap.inject_rate), TRUE)
                   /\ now' = now + cap.synthetic_delay
                   /\ UNCHANGED ret
         ELSE /\ enrich = "ok"
              /\ process_packet_then(pkt,
                    IF cap.inject_rate > 0
                    THEN _log_detection(<<>>, [seq |-> n, is_anomaly |-> FALSE,
                                               anomaly_score |-> 0,
                                               severity |-> "None"])
                    ELSE <<>>)
              /\ cap' = Drawn(SynthNext, is_port_scan,
                             Below(rnd, cap.inject_rate), FALSE)
              /\ now' = now + cap.synthetic_delay
    /\ UNCHANGED <<cfg, env, running, sev, mon>>

\* one pass of the initial wait loop: leave it when the interface is up, give
\* up after wait_timeout, else sleep 5 s and probe again
WaitInit ==
    /\ cap.pc = "wait_init"
    /\ IF is_interface_up
       THEN cap' = Iterated(Probed(EnterLoop(cap))) /\ now' = now
       ELSE IF now - cap.wait_start > wait_timeout
       THEN cap' = Probed(Returned("wait_timeout")) /\ now' = now
       ELSE cap' = Iterated(Probed(cap)) /\ now' = now + 5
    /\ UNCHANGED <<cfg, env, running, sev, mon>>
    /\ UNCHANGED detVars
    /\ UNCHANGED amVars

Stuck_any(c) == c.capture

\* `elif packets_since_last_check == 0 and capture is not None`
Stuck(c) == c.packets_since_last_check = 0 /\ c.capture

\* top of `while True`: the periodic interface check
Check ==
    /\ cap.pc = "check"
    /\ cap' = Iterated(
         IF now - cap.last_interface_check >= interface_check_interval
         THEN IF ~is_interface_up
              THEN \* went down: close the capture and wait
                   Probed(Closed([cap EXCEPT !.last_interface_check = now,
                                             !.pc = "down_wait"], "down"))
              ELSE IF Stuck(cap)
              THEN \* stuck: close the capture so that it is recreated
                   Probed(Closed([cap EXCEPT !.last_interface_check = now,
                                             !.packets_since_last_check = 0,
                                             !.pc = "create"], "stuck"))
              ELSE Probed([cap EXCEPT !.last_interface_check = now,
                                      !.packets_since_last_check = 0,
                                      !.pc = "create"])
         ELSE [cap EXCEPT !.pc = "create"])
    /\ UNCHANGED <<now, cfg, env, running, sev, mon>>
    /\ UNCHANGED detVars
    /\ UNCHANGED amVars

\* `while not is_interface_up(interface): time_module.sleep(5)`, then the
\* counter reset that ends the periodic check
DownWait ==
    /\ cap.pc = "down_wait"
    /\ IF ~is_interface_up
       THEN /\ now < MaxCapTime
            /\ cap' = Aged(Iterated(Probed(cap)), now + 5)
            /\ now' = now + 5
       ELSE /\ cap' = Iterated(Probed([cap EXCEPT !.packets_since_last_check = 0,
                                                  !.pc = "create"]))
            /\ now' = now
    /\ UNCHANGED <<cfg, env, running, sev, mon>>
    /\ UNCHANGED detVars
    /\ UNCHANGED amVars

\* "(Re)create capture if needed": a capture and its iterator exist already
CreateSkip ==
    /\ cap.pc = "create"
    /\ cap.capture /\ cap.capture_iterator
    /\ cap' = [cap EXCEPT !.pc = "next"]
    /\ UNCHANGED <<now, cfg, env, running, sev, mon>>
    /\ UNCHANGED detVars
    /\ UNCHANGED amVars

\* pyshark.LiveCapture(...) and sniff_continuously() succeed
CreateOk ==
    /\ cap.pc = "create"
    /\ ~(cap.capture /\ cap.capture_iterator)
    /\ cap' = [cap EXCEPT !.capture = TRUE, !.capture_iterator = TRUE,
                          !.created_at = now, !.pc = "next"]
    /\ UNCHANGED <<now, cfg, env, running, sev, mon>>
    /\ UNCHANGED detVars
    /\ UNCHANGED amVars

\* creating the capture raises: sleep 5 s and start the loop over
CreateFails ==
    /\ cap.pc = "create"
    /\ ~(cap.capture /\ cap.capture_iterator)
    /\ now < MaxCapTime
    /\ cap' = Aged([cap EXCEPT !.capture = FALSE, !.capture_iterator = FALSE,
                               !.created_at = now,
                               !.closed_by = "create_failed",
                               !.pc = "check"], now + 5)
    /\ now' = now + 5
    /\ UNCHANGED <<cfg, env, running, sev, mon>>
    /\ UNCHANGED detVars
    /\ UNCHANGED amVars

\* next() yields a packet: process it, count it, test the stop conditions
NextPacket ==
    /\ cap.pc = "next"
    /\ cap.packet_count_captured < MaxCaptured
    /\ \E pkt \in CapPkts : process_packet(pkt)
    /\ LET captured == cap.packet_count_captured + 1
           c == [cap EXCEPT !.packet_count_captured = captured,
                            !.packets_since_last_check = @ + 1]
       IN cap' = IF cap.packet_count > 0 /\ captured >= cap.packet_count
                 THEN [c EXCEPT !.pc = "returned", !.exit = "packet_count"]
                 ELSE IF cap.duration > 0 /\ now - cap.start_t >= cap.duration
                 THEN [c EXCEPT !.pc = "returned", !.exit = "duration"]
                 ELSE [c EXCEPT !.pc = "check"]
    /\ UNCHANGED <<now, cfg, env, running, sev, mon>>

\* next(capture_iterator, None) yields None (the iterator is exhausted):
\* sleep 10 ms and loop
NextNone ==
    /\ cap.pc = "next"
    /\ cap' = [cap EXCEPT !.pc = "check"]
    /\ UNCHANGED <<now, cfg, env, running, sev, mon>>
    /\ UNCHANGED detVars
    /\ UNCHANGED amVars

\* next() raises: drop the capture; sleep 1 s unless the interface is down
NextRaises ==
    /\ cap.pc = "next"
    /\ now < MaxCapTime
    /\ cap' = Aged(Probed(Closed([cap EXCEPT !.pc = "check"], "error")),
                   IF ~is_interface_up THEN now ELSE now + 1)
    /\ now' = IF ~is_interface_up THEN now ELSE now + 1
    /\ UNCHANGED <<cfg, env, running, sev, mon>>
    /\ UNCHANGED detVars
    /\ UNCHANGED amVars

\* KeyboardInterrupt in the pyshark branch: re-raised by the loop, caught
\* by the outer handler; the call returns
Interrupt ==
    /\ cap.pc \in LoopPcs
    /\ cap' = Returned("interrupted")
    /\ UNCHANGED <<now, cfg, env, running, sev, mon>>
    /\ UNCHANGED detVars
    /\ UNCHANGED amVars

\* an exception that escapes the loop's own handlers (raised by a print or
\* a log call) reaches the outer `except Exception`: logged, the call returns
CaptureFails ==
    /\ cap.pc \in LoopPcs
    /\ cap' = Returned("capture_failed")
    /\ UNCHANGED <<now, cfg, env, running, sev, mon>>
    /\ UNCHANGED detVars
    /\ UNCHANGED amVars

\* the interface goes down or comes up (only the pyshark branch probes it);
\* once the clock has stopped it can still come back for a loop waiting for it
InterfaceFlips ==
    /\ cap.pc \in LoopPcs
    /\ now < MaxCapTime \/ cap.pc = "down_wait"
    /\ env' = [env EXCEPT !.up = ~@]
    /\ UNCHANGED <<now, cfg, cap, running, sev, mon>>
    /\ UNCHANGED detVars
    /\ UNCHANGED amVars

\* the stop signal: stop_monitoring sets running = False
\* (MultiInterfaceMonitor.stop_monitoring: detector.running = False)
StopSignal ==
    /\ cap.pc \in ActivePcs
    /\ env.stop_at < 0
    /\ running' = FALSE
    /\ env' = [env EXCEPT !.stop_at = now]
    /\ UNCHANGED <<now, cfg, cap, sev, mon>>
    /\ UNCHANGED detVars
    /\ UNCHANGED amVars

\* time passes while the capture runs
CapTick ==
    /\ cap.pc \in ActivePcs
    /\ now < MaxCapTime
    /\ now' = now + 1
    /\ cap' = Aged(cap, now + 1)
    /\ UNCHANGED <<cfg, env, running, sev, mon>>
    /\ UNCHANGED detVars
    /\ UNCHANGED amVars

InitCap ==
    /\ now = 0
    /\ cfg = DefaultCfg
    /\ env \in {[up |-> u, stop_at |-> -1,
                 available |-> [b \in {"scapy", "pyshark"} |-> b \in av]] :
                   u \in BOOLEAN, av \in {{"scapy", "pyshark"}, {}}}
    /\ DetInit /\ AMInit /\ SevIdle /\ CapInit /\ MonIdle

NextCap ==
    \/ CapTick
    \/ StartCapture
    \/ SniffPacket \/ SniffReturns \/ SniffFails
    \/ SynthStep
    \/ WaitInit \/ Check \/ DownWait
    \/ CreateSkip \/ CreateOk \/ CreateFails
    \/ NextPacket \/ NextNone \/ NextRaises
    \/ Interrupt \/ CaptureFails
    \/ InterfaceFlips

SpecCap == InitCap /\ [][NextCap]_vars

\* SpecStop: the same call, with a stop signal arriving while it runs
\* (alerts are disabled by configuration here: alerts.enabled = False)
InitStop ==
    /\ now = 0
    /\ cfg = [DefaultCfg EXCEPT !.alerts_enabled = FALSE]
    /\ env \in {[up |-> u, stop_at |-> -1,
                 available |-> [b \in {"scapy", "pyshark"} |-> TRUE]] :
                   u \in BOOLEAN}
    /\ DetInit /\ AMInit /\ SevIdle /\ CapInit /\ MonIdle

NextStop == NextCap \/ StopSignal

SpecStop == InitStop /\ [][NextStop]_vars

-----------------------------------------------------------------------------
(* SpecMon: MultiInterfaceMonitor.start_monitoring and its worker threads *)
(*                                                                         *)
(* mon.main is the position of start_monitoring: idle, setup (the for loop *)
(* over the interfaces, at index mon.i), join (the loop over the threads,  *)
(* at index mon.i), returned, raised.  mon.w[f] is the position of the     *)
(* worker of interface f in _monitor_interface:                            *)
(*   none, active (thread started), capture (in start_packet_capture),     *)
(*   publish (line 153), r_pk w_pk r_an w_an r_al w_al (the reads and      *)
(*   writes of the three `+=` on the shared totals), done.                 *)
(* mon.det[f] are the counters of f's detector, mon.tmp[f] the value a     *)
(* worker has read for its pending `+=`.  mon.names is self.interfaces,    *)
(* mon.det_running[f] the running flag of f's detector, mon.closed the     *)
(* detectors whose close() was called, mon.stops and mon.dstops count the  *)
(* stop_monitoring calls on the monitor and on the single detector, and    *)
(* mon.snapshot is the value get_aggregate_statistics returned.            *)

MaxWorkerPackets == 1     \* observations per worker

Interfaces == <<"A", "B", "C">>
IfaceSet == {Interfaces[k] : k \in 1..Len(Interfaces)}

\* the monitor after __init__ with the interface list names
MonStart(names) ==
          [main |-> "idle", i |-> 1, running |-> FALSE,
           names |-> names,
           det_running |-> [f \in IfaceSet |-> FALSE],
           closed |-> {}, stops |-> 0, dstops |-> 0, snapshot |-> None,
           total_packets |-> 0, anomalies_detected |-> 0,
           alerts_generated |-> 0,
           interfaces |-> <<>>,           \* aggregate_stats['interfaces']
           detectors |-> {}, threads |-> <<>>,
           w |-> [f \in IfaceSet |-> "none"],
           det |-> [f \in IfaceSet |-> [total_packets |-> 0,
                                        anomalies_detected |-> 0,
                                        alerts_generated |-> 0]],
           tmp |-> [f \in IfaceSet |-> 0],
           failed |-> {}]                 \* history: interfaces whose start failed

MonInit == mon = MonStart(Interfaces)

monFrame == <<now, cfg, stats, buffer, db, ret, alerts, alert_history,
              last_alert_time, am_stats, notified, calls, sev, cap, env,
              running>>

\* d[k] = v for a dict d that may not have the key k yet
DictSet(d, k, v) == [x \in DOMAIN d \cup {k} |-> IF x = k THEN v ELSE d[x]]

\* start_monitoring is called
StartMonitoring ==
    /\ mon.main = "idle"
    /\ ~running /\ mon.dstops = 0
    /\ mon' = [mon EXCEPT !.main = "setup", !.running = TRUE]
    /\ UNCHANGED monFrame

\* the except clause of the for loop:
\* self.aggregate_stats['interfaces'][interface]['status'] = 'error'
\* raises KeyError when the interface has no entry yet
HandleStartError(m, f) ==
    IF f \in DOMAIN m.interfaces
    THEN [m EXCEPT !.interfaces[f].status = "error", !.i = @ + 1,
                   !.failed = @ \cup {f}]
    ELSE [m EXCEPT !.main = "raised", !.failed = @ \cup {f}]

\* end of a loop: go on to the join loop, or return
Advance(m) ==
    IF m.i > Len(m.names)
    THEN IF m.main = "setup" THEN [m EXCEPT !.main = "join", !.i = 1]
         ELSE IF m.main = "join" THEN [m EXCEPT !.main = "returned"]
         ELSE m
    ELSE m

\* one iteration of the for loop: the detector is constructed, the stats
\* entry initialised and the thread started
SetupOk ==
    /\ mon.main = "setup"
    /\ LET f == mon.names[mon.i] IN
       mon' = Advance([mon EXCEPT
                 !.interfaces = DictSet(@, f, [packets |-> 0, anomalies |-> 0,
                                               status |-> "starting"]),
                 !.detectors = @ \cup {f},
                 !.threads = DictSet(@, f, "started"),
                 !.w[f] = "active",
                 !.i = @ + 1])
    /\ UNCHANGED monFrame

\* RealtimeDetector(...) raises (its DatabaseManager cannot create or open
\* the database, say): nothing of the iteration has happened yet
SetupConstructRaises ==
    /\ mon.main = "setup"
    /\ mon' = Advance(HandleStartError(mon, mon.names[mon.i]))
    /\ UNCHANGED monFrame

\* thread.start() raises: the entry, the detector and the thread object are
\* registered already
SetupStartRaises ==
    /\ mon.main = "setup"
    /\ LET f == mon.names[mon.i] IN
       mon' = Advance(HandleStartError(
                [mon EXCEPT
                   !.interfaces = DictSet(@, f, [packets |-> 0, anomalies |-> 0,
                                                 status |-> "starting"]),
                   !.detectors = @ \cup {f},
                   !.threads = DictSet(@, f, "created")], f))
    /\ UNCHANGED monFrame

\* thread.join() of the next thread in self.threads: returns once the thread
\* has ended, raises RuntimeError for a thread that was never started
Join ==
    /\ mon.main = "join"
    /\ LET f == mon.names[mon.i] IN
       IF f \notin DOMAIN mon.threads
       THEN mon' = Advance([mon EXCEPT !.i = @ + 1])
       ELSE IF mon.threads[f] = "created"
       THEN mon' = [mon EXCEPT !.main = "raised"]
       ELSE /\ mon.w[f] = "done"
            /\ mon' = Advance([mon EXCEPT !.i = @ + 1])
    /\ UNCHANGED monFrame

\* _monitor_interface line 140: status = 'active', then the capture starts
WorkerActive(f) ==
    /\ mon.w[f] = "active"
    /\ mon' = [mon EXCEPT !.interfaces[f].status = "active", !.w[f] = "capture"]
    /\ UNCHANGED monFrame

\* the detector processes one observation inside start_packet_capture
WorkerPacket(f) ==
    /\ mon.w[f] = "capture"
    /\ mon.det[f].total_packets < MaxWorkerPackets
    /\ \E anomalous \in BOOLEAN :
         mon' = [mon EXCEPT
                   !.det[f].total_packets = @ + 1,
                   !.det[f].anomalies_detected = @ + (IF anomalous THEN 1 ELSE 0),
                   !.det[f].alerts_generated = @ + (IF anomalous THEN 1 ELSE 0)]
    /\ UNCHANGED monFrame

\* start_packet_capture returns
WorkerCaptureReturns(f) ==
    /\ mon.w[f] = "capture"
    /\ mon' = [mon EXCEPT !.w[f] = "publish"]
    /\ UNCHANGED monFrame

\* start_packet_capture raises: status = 'error', detector closed
WorkerCaptureRaises(f) ==
    /\ mon.w[f] = "capture"
    /\ mon' = [mon EXCEPT !.interfaces[f].status = "error", !.w[f] = "done",
                          !.closed = @ \cup {f}]
    /\ UNCHANGED monFrame

\* lines 153-155: the worker's own entry
WorkerPublish(f) ==
    /\ mon.w[f] = "publish"
    /\ mon' = [mon EXCEPT
                 !.interfaces[f] = [packets |-> mon.det[f].total_packets,
                                    anomalies |-> mon.det[f].anomalies_detected,
                                    status |-> "completed"],
                 !.w[f] = "r_pk"]
    /\ UNCHANGED monFrame

\* lines 157-159: each `aggregate_stats[k] += n` is a read of the shared
\* total followed by a write of the sum; no lock is held in between
WorkerRead(f) ==
    /\ mon.w[f] \in {"r_pk", "r_an", "r_al"}
    /\ mon' = [mon EXCEPT
                 !.tmp[f] = IF mon.w[f] = "r_pk" THEN mon.total_packets
                            ELSE IF mon.w[f] = "r_an" THEN mon.anomalies_detected
                            ELSE mon.alerts_generated,
                 !.w[f] = IF mon.w[f] = "r_pk" THEN "w_pk"
                          ELSE IF mon.w[f] = "r_an" THEN "w_an" ELSE "w_al"]
    /\ UNCHANGED monFrame

WorkerWrite(f) ==
    /\ mon.w[f] \in {"w_pk", "w_an", "w_al"}
    /\ mon' = IF mon.w[f] = "w_pk"
              THEN [mon EXCEPT
                      !.total_packets = mon.tmp[f] + mon.det[f].total_packets,
                      !.tmp[f] = 0, !.w[f] = "r_an"]
              ELSE IF mon.w[f] = "w_an"
              THEN [mon EXCEPT
                      !.anomalies_detected =
                          mon.tmp[f] + mon.det[f].anomalies_detected,
                      !.tmp[f] = 0, !.w[f] = "r_al"]
              ELSE [mon EXCEPT
                      !.alerts_generated =
                          mon.tmp[f] + mon.det[f].alerts_generated,
                      !.tmp[f] = 0, !.w[f] = "done",
                      !.closed = @ \cup {f}]
    /\ UNCHANGED monFrame

InitMon ==
    /\ now = 0
    /\ cfg = DefaultCfg
    /\ DetInit /\ AMInit /\ SevIdle /\ CapIdle /\ MonInit

NextMon ==
    \/ StartMonitoring
    \/ SetupOk \/ SetupConstructRaises \/ SetupStartRaises
    \/ Join
    \/ \E f \in IfaceSet :
         \/ WorkerActive(f) \/ WorkerPacket(f)
         \/ WorkerCaptureReturns(f) \/ WorkerCaptureRaises(f)
         \/ WorkerPublish(f) \/ WorkerRead(f) \/ WorkerWrite(f)

SpecMon == InitMon /\ [][NextMon]_vars

\* SpecMonStop: two interfaces; the join loop can be interrupted, the
\* caller stops the monitor and reads the aggregate statistics, and the
\* single detector of the process is started and stopped
MaxStops == 2             \* stop_monitoring calls per object

stop_monitoring_flush ==
    [mon EXCEPT !.running = FALSE,
                !.det_running = [f \in IfaceSet |->
                                   IF f \in mon.detectors THEN FALSE ELSE @[f]],
                !.closed = @ \cup mon.detectors,
                !.stops = @ + 1,
                !.main = IF @ = "join" THEN "returned" ELSE @,
                !.interfaces = [f \in DOMAIN @ |->
                                  [@[f] EXCEPT !.packets =
                                      @ + mon.det[f].total_packets]]]

\* KeyboardInterrupt in the join loop, or the finally clause of
\* run_detection: stop_monitoring sets the flags and closes every detector;
\* it joins no thread.  In the join loop start_monitoring then returns
stop_monitoring ==
    [mon EXCEPT !.running = FALSE,
                !.det_running = [f \in IfaceSet |->
                                   IF f \in mon.detectors THEN FALSE ELSE @[f]],
                !.closed = @ \cup mon.detectors,
                !.stops = @ + 1,
                !.main = IF @ = "join" THEN "returned" ELSE @]


StopMonitoring ==
    /\ mon.main \in {"join", "returned", "raised"}
    /\ mon.stops < MaxStops
    /\ mon' = stop_monitoring
    /\ UNCHANGED monFrame

\* get_aggregate_statistics: self.aggregate_stats.copy() copies the totals;
\* the 'interfaces' value of the copy is the dict the workers write to.
\* taken is what that dict held at the time of the call
get_aggregate_statistics ==
    [total_packets |-> mon.total_packets,
     anomalies_detected |-> mon.anomalies_detected,
     alerts_generated |-> mon.alerts_generated,
     taken |-> mon.interfaces]

GetAggregateStatistics ==
    /\ mon.main # "idle"
    /\ mon.snapshot = None
    /\ mon' = [mon EXCEPT !.snapshot = get_aggregate_statistics]
    /\ UNCHANGED monFrame

\* single-interface mode (run_detection uses the monitor or one detector,
\* not both).  RealtimeDetector.start_monitoring up to its loop:
\* running = True
DetectorStart ==
    /\ mon.main = "idle"
    /\ ~running
    /\ mon.dstops = 0
    /\ running' = TRUE
    /\ UNCHANGED <<now, cfg, stats, buffer, db, ret, alerts, alert_history,
                   last_alert_time, am_stats, notified, calls, sev, cap, env,
                   mon>>

\* RealtimeDetector.stop_monitoring, then close(): running = False, the
\* statistics are printed, the DatabaseManager drops its connection
DetectorStop ==
    /\ mon.main = "idle"
    /\ mon.dstops < MaxStops
    /\ running' = FALSE
    /\ mon' = [mon EXCEPT !.dstops = @ + 1]
    /\ UNCHANGED <<now, cfg, stats, buffer, db, ret, alerts, alert_history,
                   last_alert_time, am_stats, notified, calls, sev, cap, env>>

InitMonStop ==
    /\ now = 0
    /\ cfg = DefaultCfg
    /\ DetInit /\ AMInit /\ SevIdle /\ CapIdle
    /\ mon = MonStart(<<"A", "B">>)

NextMonStop ==
    \/ NextMon
    \/ StopMonitoring \/ GetAggregateStatistics
    \/ DetectorStart \/ DetectorStop

SpecMonStop == InitMonStop /\ [][NextMonStop]_vars

-----------------------------------------------------------------------------
(* SpecWorkers: the alert managers of the detectors start_monitoring makes *)
(*                                                                         *)
(* start_monitoring constructs one RealtimeDetector per interface without  *)
(* an alert_manager argument, and the constructor then builds its own      *)
(* AlertManager(config).  mon.am[f] is the manager of interface f's        *)
(* detector: its cooldown map and its alert history (an alert is kept by   *)
(* its cooldown key, its time and the interface whose worker raised it).   *)
(* mon.last is the last create_alert call of a worker.                     *)

\* AlertManager.__init__: no alert yet
NewManager == [last_alert_time |-> << >>, alert_history |-> <<>>]

\* create_alert on the manager am, by the worker of interface f, for an
\* anomaly with cooldown key `key`: the manager afterwards
create_alert_on(am, f, key) ==
    IF /\ key \in DOMAIN am.last_alert_time
       /\ now - am.last_alert_time[key] < alert_cooldown
    THEN am
    ELSE [last_alert_time |->
            [k \in DOMAIN am.last_alert_time \cup {key} |->
                IF k = key THEN now ELSE am.last_alert_time[k]],
          alert_history |->
            Append(am.alert_history,
                   [key |-> key, time |-> now, interface |-> f])]

AlertKeys == { Description(95000, 0), Description(100000, 0) }

\* the worker of interface f detects an anomaly: _handle_anomaly calls
\* self.alert_manager.create_alert
WorkerAlert(f) ==
    /\ Len(mon.am[f].alert_history) < MaxAlerts
    /\ \E key \in AlertKeys :
         LET after == create_alert_on(mon.am[f], f, key)
         IN mon' = [mon EXCEPT
                      !.am[f] = after,
                      !.last = [interface |-> f, key |-> key, time |-> now,
                                fired |-> after # mon.am[f]]]
    /\ UNCHANGED <<now, cfg, sev, cap, env, running>>
    /\ UNCHANGED detVars
    /\ UNCHANGED amVars

InitWorkers ==
    /\ now = 0
    /\ cfg = DefaultCfg
    /\ DetInit /\ AMInit /\ SevIdle /\ CapIdle
    /\ mon = [am |-> [f \in {"A", "B"} |-> NewManager], last |-> None]

NextWorkers == Tick \/ \E f \in {"A", "B"} : WorkerAlert(f)

SpecWorkers == InitWorkers /\ [][NextWorkers]_vars

-----------------------------------------------------------------------------
(* SpecTI: threat enrichment and the severity it leads to                  *)
(*                                                                         *)
(* sev holds one detection handed to _handle_anomaly: its anomaly score,   *)
(* whether it has a source / destination IP, the configured providers and  *)
(* what each provider's lookup_ip does for either IP:                      *)
(*   ok     a reputation record (abuse_confidence_score, or malicious and  *)
(*          suspicious counts)                                             *)
(*   error  the {'provider', 'ip', 'error'} dict of a failed request       *)
(*   raise  an exception other than RequestException                       *)
(* The threat score is kept in units of 0.01, truncated; the severity      *)
(* tests compare it with whole numbers of that unit.                       *)

ProviderNames == {"abuseipdb", "virustotal"}

Lookup(kind, abuse, malicious, suspicious) ==
    [kind |-> kind, abuse_confidence_score |-> abuse,
     malicious |-> malicious, suspicious |-> suspicious]

\* what AbuseIPDBProvider.lookup_ip / VirusTotalProvider.lookup_ip can yield
AbuseLookups ==
    { Lookup("ok", 0, 0, 0), Lookup("ok", 80, 0, 0), Lookup("ok", 100, 0, 0),
      Lookup("error", 0, 0, 0), Lookup("raise", 0, 0, 0) }
VTLookups ==
    { Lookup("ok", 0, 0, 0), Lookup("ok", 0, 8, 0), Lookup("ok", 0, 1, 2),
      Lookup("error", 0, 0, 0) }

Get_failclosed(result, field) == IF result.kind = "ok" THEN result[field] ELSE 100

\* dict.get(field, 0) on a lookup result: an error dict has no such field
Get(result, field) == IF result.kind = "ok" THEN result[field] ELSE 0

Min(a, b) == IF a <= b THEN a ELSE b

RECURSIVE SeqSum(_)
SeqSum(q) == IF q = <<>> THEN 0 ELSE Head(q) + SeqSum(Tail(q))

\* _lookup_ip_all_providers: one entry per provider whose lookup returned
_lookup_ip_all_providers(providers, look) ==
    [p \in {q \in providers : look[q].kind # "raise"} |-> look[p]]

\* _calculate_threat_score: the mean of the scores collected, destination
\* scores weighted by 0.5
_calculate_threat_score(threat_data) ==
    LET src == threat_data.src_threat_intel
        dst == threat_data.dst_threat_intel
        vt == IF "virustotal" \in DOMAIN src
              THEN Get(src["virustotal"], "malicious") * 10
                   + Get(src["virustotal"], "suspicious") * 5
              ELSE 0
        dvt == IF "virustotal" \in DOMAIN dst
               THEN Get(dst["virustotal"], "malicious") ELSE 0
        s1 == IF "abuseipdb" \in DOMAIN src
              THEN <<100 * Get(src["abuseipdb"], "abuse_confidence_score")>>
              ELSE <<>>
        s2 == IF vt > 0 THEN <<100 * Min(100, vt)>> ELSE <<>>
        s3 == IF "abuseipdb" \in DOMAIN dst
              THEN <<50 * Get(dst["abuseipdb"], "abuse_confidence_score")>>
              ELSE <<>>
        s4 == IF dvt > 0 THEN <<50 * Min(100, dvt * 5)>> ELSE <<>>
        scores == s1 \o s2 \o s3 \o s4
    IN IF scores = <<>> THEN 0 ELSE SeqSum(scores) \div Len(scores)

\* enrich_detection followed by enriched_detection.get('threat_score', 0.0)
enrich_detection(d) ==
    IF d.providers = {} THEN 0
    ELSE _calculate_threat_score(
           [src_threat_intel |->
                IF d.src_ip THEN _lookup_ip_all_providers(d.providers, d.src)
                ELSE <<>>,
            dst_threat_intel |->
                IF d.dst_ip THEN _lookup_ip_all_providers(d.providers, d.dst)
                ELSE <<>>])

\* the lookup_ip calls enrich_detection makes (each one a request, the
\* caches being empty): none without providers, else one per provider and
\* IP
Requests(d) ==
    IF d.providers = {} THEN 0
    ELSE Cardinality(d.providers)
           * ((IF d.src_ip THEN 1 ELSE 0) + (IF d.dst_ip THEN 1 ELSE 0))

\* _handle_anomaly up to the alert data: enrichment, then the cascade
EnrichAndRate ==
    /\ sev.severity = "unset"
    /\ LET threat_score == enrich_detection(sev) IN
       sev' = [sev EXCEPT !.threat_score = threat_score,
                          !.lookups = Requests(sev),
                          !.severity = Severity(sev.score, threat_score)]
    /\ UNCHANGED <<now, cfg, stats, buffer, db, ret, alerts, alert_history,
                   last_alert_time, am_stats, notified, calls, cap, env,
                   running, mon>>

InitTI ==
    /\ now = 0
    /\ cfg = DefaultCfg
    /\ sev \in {[kind |-> "detection", score |-> s, providers |-> ps,
                 src_ip |-> TRUE, dst_ip |-> di,
                 src |-> [p \in ProviderNames |->
                            IF p = "abuseipdb" THEN sa ELSE sv],
                 dst |-> [p \in ProviderNames |->
                            IF p = "abuseipdb" THEN da ELSE dv],
                 threat_score |-> -1, lookups |-> 0, severity |-> "unset"] :
                   s \in {50000, 95000}, ps \in SUBSET ProviderNames,
                   di \in BOOLEAN,
                   sa \in AbuseLookups, sv \in VTLookups,
                   da \in AbuseLookups, dv \in VTLookups}
    /\ DetInit /\ AMInit /\ CapIdle /\ MonIdle

NextTI == EnrichAndRate

SpecTI == InitTI /\ [][NextTI]_vars

-----------------------------------------------------------------------------
(* SpecCache: one ThreatIntelProvider and its per-IP cache                 *)
(*                                                                         *)
(* sev.cache maps an IP to (data, timestamp), sev.requests counts the      *)
(* requests.get calls, sev.lookups the lookup_ip calls, and sev.last is    *)
(* the last lookup_ip call: its IP and time, the cache entry it found      *)
(* (prev), whether it made a request and what it returned.                 *)

cache_ttl == 2            \* config 'cache_ttl', seconds
MaxLookups == 3           \* lookup_ip calls per run

IPs == {"10.0.0.1", "10.0.0.2"}
Reputations == {0, 80}                  \* abuseConfidenceScore of a response
Responses == {"200", "429", "timeout"}  \* status code, or RequestException

ProvInit ==
    sev = [kind |-> "provider", cache |-> <<>>, requests |-> 0,
           lookups |-> 0, last |-> None]

_check_cache_le(key) ==
    IF key \in DOMAIN sev.cache /\ now - sev.cache[key].timestamp <= cache_ttl
    THEN sev.cache[key].data
    ELSE None

\* _check_cache: the cached data if there are any younger than cache_ttl
_check_cache(key) ==
    IF key \in DOMAIN sev.cache /\ now - sev.cache[key].timestamp < cache_ttl
    THEN sev.cache[key].data
    ELSE None

\* _update_cache: self.cache[key] = (data, time.time())
_update_cache(key, data) ==
    DictSet(sev.cache, key, [data |-> data, timestamp |-> now])

\* history record of a lookup_ip call
LookedUp(ip, network, returned) ==
    [ip |-> ip, time |-> now,
     prev |-> IF ip \in DOMAIN sev.cache THEN sev.cache[ip] ELSE None,
     network |-> network, returned |-> returned]

lookup_ip_caches_errors(ip, response, score) ==
    LET cached == _check_cache(ip)
        result == IF response = "200"
                  THEN [kind |-> "ok", ip |-> ip,
                        abuse_confidence_score |-> score]
                  ELSE [kind |-> "error", ip |-> ip]
    IN
    IF cached # None
    THEN sev' = [sev EXCEPT !.lookups = @ + 1,
                            !.last = LookedUp(ip, FALSE, cached)]
    ELSE sev' = [sev EXCEPT !.lookups = @ + 1, !.requests = @ + 1,
                            !.cache = _update_cache(ip, result),
                            !.last = LookedUp(ip, TRUE, result)]

\* AbuseIPDBProvider.lookup_ip (VirusTotalProvider.lookup_ip has the same
\* structure): the cached result, else a request whose result is cached
\* when the status is 200 and is an error dict otherwise
lookup_ip(ip, response, score) ==
    LET cached == _check_cache(ip)
        result == [kind |-> "ok", ip |-> ip, abuse_confidence_score |-> score]
        error == [kind |-> "error", ip |-> ip]
    IN
    IF cached # None
    THEN sev' = [sev EXCEPT !.lookups = @ + 1,
                            !.last = LookedUp(ip, FALSE, cached)]
    ELSE IF response = "200"
    THEN sev' = [sev EXCEPT !.lookups = @ + 1, !.requests = @ + 1,
                            !.cache = _update_cache(ip, result),
                            !.last = LookedUp(ip, TRUE, result)]
    ELSE sev' = [sev EXCEPT !.lookups = @ + 1, !.requests = @ + 1,
                            !.last = LookedUp(ip, TRUE, error)]

LookupIp ==
    /\ sev.lookups < MaxLookups
    /\ \E ip \in IPs, response \in Responses, score \in Reputations :
          lookup_ip(ip, response, score)
    /\ UNCHANGED <<now, cfg, stats, buffer, db, ret, alerts, alert_history,
                   last_alert_time, am_stats, notified, calls, cap, env,
                   running, mon>>

InitCache ==
    /\ now = 0
    /\ cfg = DefaultCfg
    /\ DetInit /\ AMInit /\ ProvInit /\ CapIdle /\ MonIdle

NextCache == Tick \/ LookupIp

SpecCache == InitCache /\ [][NextCache]_vars

-----------------------------------------------------------------------------
(* Properties *)

\* whether scoring or anomaly handling raises for the observation
Fails(pkt) ==
    \/ pkt.model = "raise"
    \/ Prediction(pkt) # 0 /\ pkt.enrich = "raise"

\* C1: process_packet returns a result for every observation and never
\* raises, whether the observation lacks the fields the preprocessor expects
\* (the zero vector is scored instead), or scoring or anomaly handling
\* raises; the returned anomaly_score is in [0,1]; when scoring or anomaly
\* handling raised, the result is non-anomalous and carries the error.
C1_ProcessPacketNeverRaises ==
    ret # None =>
        /\ ~ret.raised
        /\ ret.value.kind = "result"
        /\ ret.value.anomaly_score \in 0..100000
        /\ Fails(ret.pkt) => ~ret.value.is_anomaly /\ ret.value.error
        /\ X(ret.pkt) = "zeros" /\ ~Fails(ret.pkt) => ~ret.value.error

\* an anomalous observation whose handling raised has been processed
C1_Witness ==
    /\ ret # None
    /\ ret.pkt.enrich = "raise"
    /\ ret.value.error
    /\ stats.anomalies_detected > 0

\* C2: a create_alert call whose key last fired less than alert_cooldown
\* seconds ago returns no alert and invokes no channel; one whose key last
\* fired alert_cooldown seconds ago or more returns an alert and invokes
\* every configured channel.
C2_Cooldown ==
    calls.last # None /\ calls.last.prev >= 0 =>
        IF calls.last.time - calls.last.prev < alert_cooldown
        THEN ~calls.last.fired /\ calls.last.sent = 0
        ELSE /\ calls.last.fired
             /\ calls.last.sent = Len(cfg.notification_methods)
             /\ calls.last.sent > 0

\* a second call with the same key exactly alert_cooldown seconds after the
\* first fired
C2_Witness ==
    /\ calls.last # None
    /\ calls.last.prev >= 0
    /\ calls.last.time - calls.last.prev = alert_cooldown
    /\ calls.last.fired
    /\ Len(notified) = 2 * Len(cfg.notification_methods)

C5_StopObserved == ~cap.late

\* C6: the synthetic fallback stops at the first satisfied bound, and with
\* neither packet_count nor duration set it stops after 10 observations.
C6_SyntheticTerminates ==
    cap.pc = "synthetic" =>
        /\ cap.packet_count > 0 => cap.emitted < cap.packet_count
        /\ cap.packet_count = 0 /\ cap.duration = 0
             => cap.emitted < SyntheticSafetyCap

\* C7: a live capture with a duration ends once the duration has elapsed
\* (no iteration of its loop begins at or after the deadline with the
\* session going on, packet or no packet, interface up or down); with a
\* packet_count it ends once that many packets have been processed.
C7_LiveCaptureBounded ==
    /\ ~cap.overrun
    /\ cap.pc \in LoopPcs /\ cap.packet_count > 0
         => cap.packet_count_captured < cap.packet_count

RECURSIVE Sum(_, _)
\* the sum of v[f] over the interfaces f in S
Sum(v, S) ==
    IF S = {} THEN 0
    ELSE LET f == CHOOSE x \in S : TRUE IN v[f] + Sum(v, S \ {f})

Completed == {f \in DOMAIN mon.interfaces : mon.interfaces[f].status = "completed"}

\* C4: when starting an interface's worker fails, start_monitoring does not
\* raise, the interface is marked 'error', and once the loop is over every
\* other interface has been started.
C4_StartIsolation ==
    /\ mon.main # "raised"
    /\ \A f \in mon.failed :
         f \in DOMAIN mon.interfaces /\ mon.interfaces[f].status = "error"
    /\ mon.main \in {"join", "returned"}
         => \A f \in IfaceSet \ mon.failed : mon.w[f] # "none"

\* C8: once all workers have ended, each shared total is the sum of the
\* counters of the completed detectors, and total_packets is the sum of the
\* per-interface packets entries.
C8_AggregateSerialized ==
    (\A f \in IfaceSet : mon.w[f] = "done") =>
        /\ mon.total_packets =
             Sum([f \in IfaceSet |-> mon.det[f].total_packets], Completed)
        /\ mon.anomalies_detected =
             Sum([f \in IfaceSet |-> mon.det[f].anomalies_detected], Completed)
        /\ mon.alerts_generated =
             Sum([f \in IfaceSet |-> mon.det[f].alerts_generated], Completed)
        /\ mon.total_packets =
             Sum([f \in IfaceSet |-> mon.interfaces[f].packets], IfaceSet)

\* C9: with combined = 0.6*s + 0.4*(t/100), the severity is 'high' iff
\* combined >= 0.9 or t >= 75, otherwise 'medium' iff combined >= 0.7 or
\* t >= 50, otherwise 'low'.
C9_SeverityRule ==
    sev.severity # "unset" =>
        LET s == sev.score
            t == sev.threat_score
            high == 6 * s + 40 * t >= 900000 \/ t >= 7500
            medium == 6 * s + 40 * t >= 700000 \/ t >= 5000
        IN /\ sev.severity = "high" <=> high
           /\ sev.severity = "medium" <=> ~high /\ medium
           /\ sev.severity = "low" <=> ~high /\ ~medium

\* 'medium' by the combined score alone, at the boundary combined = 0.7
C9_Witness ==
    /\ sev.severity = "medium"
    /\ sev.threat_score < 5000
    /\ 6 * sev.score + 40 * sev.threat_score = 700000

Rank(severity) ==
    IF severity = "low" THEN 1 ELSE IF severity = "medium" THEN 2 ELSE 3

\* C10: raising the anomaly score with the threat score fixed, or the threat
\* score with the anomaly score fixed, never lowers the severity.
C10_SeverityMonotone ==
    sev.severity # "unset" =>
        /\ \A s \in ScoreGrid :
             s >= sev.score =>
               Rank(Severity(s, sev.threat_score)) >= Rank(sev.severity)
        /\ \A t \in ThreatGrid :
             t >= sev.threat_score =>
               Rank(Severity(sev.score, t)) >= Rank(sev.severity)

\* a 'low' that a larger score raises to 'medium' and a larger threat score
\* raises to 'high'
C10_Witness ==
    /\ sev.severity = "low"
    /\ \E s \in ScoreGrid :
         s > sev.score /\ Severity(s, sev.threat_score) = "medium"
    /\ \E t \in ThreatGrid :
         t > sev.threat_score /\ Severity(sev.score, t) = "high"

\* the reputation a provider's source lookup reports, on the 0-100 scale
SrcReputation(p) ==
    IF p = "abuseipdb" THEN Get(sev.src[p], "abuse_confidence_score")
    ELSE Min(100, Get(sev.src[p], "malicious") * 10
                  + Get(sev.src[p], "suspicious") * 5)

\* C11: when the threat lookup reports reputation 80 for the source IP and
\* the anomaly score is 0.5, the threat score used is 80 and the severity
\* is 'high', whichever providers are configured and whatever the lookups
\* of the destination IP return.
C11_SourceReputationForcesHigh ==
    /\ sev.severity # "unset"
    /\ sev.score = 50000
    /\ sev.providers # {}
    /\ \A p \in sev.providers : sev.src[p].kind = "ok" /\ SrcReputation(p) = 80
    => sev.threat_score = 8000 /\ sev.severity = "high"

\* the results process_packet has inserted so far, oldest first: each is
\* logged once with no severity
Inserted == SelectSeq(db, LAMBDA row : row.severity = "None")

\* C12: the recent-results buffer never holds more than buffer_size results;
\* after n insertions it holds the min(n, buffer_size) most recent ones, in
\* insertion order.
C12_RingBuffer ==
    LET n == Len(Inserted)
        kept == IF n <= buffer_size THEN n ELSE buffer_size
    IN /\ Len(buffer) <= buffer_size
       /\ Len(buffer) = kept
       /\ \A i \in 1..kept :
            /\ buffer[i].seq = Inserted[n - kept + i].seq
            /\ buffer[i].anomaly_score = Inserted[n - kept + i].anomaly_score
            /\ buffer[i].is_anomaly = Inserted[n - kept + i].is_anomaly

\* more results than the buffer holds have been inserted
C12_Witness ==
    /\ Len(Inserted) > buffer_size
    /\ Len(buffer) = buffer_size
    /\ buffer[1].seq > 1

\* C13: every result process_packet returns, a result carrying an error
\* included, has been appended to the recent-results buffer and handed to
\* the persistence sink before the call returns.
C13_EveryResultRecorded ==
    ret # None /\ ~ret.raised =>
        /\ Len(buffer) > 0
        /\ buffer[Len(buffer)].seq = ret.value.seq
        /\ \E i \in 1..Len(db) : db[i].seq = ret.value.seq

\* C14: alerts_generated counts the create_alert calls that returned an
\* alert (suppressed and disabled calls are not counted), and so is at most
\* anomalies_detected.
C14_AlertsGeneratedCountsAlerts ==
    /\ stats.alerts_generated = Len(alert_history)
    /\ stats.alerts_generated <= stats.anomalies_detected

\* C15: with a probability-scoring model, after any sequence of calls
\* anomalies_detected is the number of observations scored strictly above
\* the threshold, which is the number of results returned with is_anomaly
\* true, and total_packets is the number of calls.
C15_CountersMatchResults ==
    cfg.has_proba /\ ret # None =>
        /\ stats.anomalies_detected = ret.history.above
        /\ stats.anomalies_detected = ret.history.anomalous
        /\ stats.total_packets = ret.history.calls

\* a call that no cooldown suppresses on an enabled manager
NotSuppressed ==
    /\ calls.last # None
    /\ calls.last.kind = "call"
    /\ cfg.alerts_enabled
    /\ calls.last.prev >= 0 => calls.last.time - calls.last.prev >= alert_cooldown

\* the channel invocations of the last call that returned an alert
LastSent ==
    SubSeq(notified, Len(notified) - Len(cfg.notification_methods) + 1,
           Len(notified))

\* C16: a create_alert call that the cooldown suppresses changes nothing:
\* the alerts buffer, the history, the statistics, the channel invocations
\* and the cooldown map (so the cooldown window is not extended) stay as
\* they were.
C16_SuppressedHasNoEffect ==
    [][(/\ calls' # calls
        /\ calls'.last.kind = "call"
        /\ ~calls'.last.fired
        /\ cfg.alerts_enabled)
       => /\ alerts' = alerts
          /\ alert_history' = alert_history
          /\ am_stats' = am_stats
          /\ last_alert_time' = last_alert_time
          /\ notified' = notified]_vars

\* a call suppressed strictly after the alert that started the window
C16_Witness ==
    /\ calls.last # None
    /\ cfg.alerts_enabled
    /\ ~calls.last.fired
    /\ calls.last.prev >= 0
    /\ calls.last.time > calls.last.prev
    /\ last_alert_time[calls.last.key] = calls.last.prev

\* C17: a create_alert call that is not suppressed returns an alert with
\* status 'active' and the severity asked for, the alert is the newest
\* element of the alerts buffer and of the history, the cooldown map holds
\* the time of the call for its key, and every configured channel is
\* invoked exactly once, in order.
C17_NonSuppressedCreates ==
    NotSuppressed =>
        /\ calls.last.fired
        /\ calls.last.returned.status = "active"
        /\ calls.last.returned.severity = calls.last.severity
        /\ alerts # <<>> /\ alerts[Len(alerts)] = calls.last.returned
        /\ alert_history # <<>>
        /\ alert_history[Len(alert_history)] = calls.last.returned
        /\ calls.last.key \in DOMAIN last_alert_time
        /\ last_alert_time[calls.last.key] = calls.last.time
        /\ calls.last.sent = Len(cfg.notification_methods)
        /\ Len(notified) >= Len(cfg.notification_methods)
        /\ \A i \in 1..Len(cfg.notification_methods) :
               /\ LastSent[i].method = cfg.notification_methods[i]
               /\ LastSent[i].id = calls.last.returned.id

\* a second alert, of severity 'high', sent to four channels
C17_Witness ==
    /\ NotSuppressed
    /\ calls.last.severity = "high"
    /\ Len(alert_history) = 2
    /\ Len(cfg.notification_methods) = 4
    /\ Len(notified) = 8

\* C18: the ids of the alerts created in the process are pairwise different,
\* also for calls made without the clock advancing.
C18_AlertIdsUnique ==
    \A i, j \in 1..Len(alert_history) :
        i # j => alert_history[i].id # alert_history[j].id

\* C19: whichever configured channels raise, every other configured channel
\* is still invoked and completes, and the call stores and returns the
\* alert.
C19_ChannelFailuresIsolated ==
    NotSuppressed =>
        /\ calls.last.fired
        /\ alerts # <<>> /\ alerts[Len(alerts)] = calls.last.returned
        /\ alert_history # <<>>
        /\ alert_history[Len(alert_history)] = calls.last.returned
        /\ Len(notified) >= Len(cfg.notification_methods)
        /\ \A i \in 1..Len(cfg.notification_methods) :
               cfg.notification_methods[i] \notin cfg.failing =>
                   /\ LastSent[i].method = cfg.notification_methods[i]
                   /\ ~LastSent[i].raised

\* the first channel raised and the channels after it were invoked
C19_Witness ==
    /\ NotSuppressed
    /\ cfg.failing = {"console"}
    /\ Len(cfg.notification_methods) = 4
    /\ LastSent[1].raised
    /\ LastSent[4].method = "webhook" /\ ~LastSent[4].raised

\* the status acknowledge_alert / resolve_alert gives an alert
MarkStatus(kind) == IF kind = "acknowledge" THEN "acknowledged" ELSE "resolved"

\* C20: acknowledge_alert(id) and resolve_alert(id, note) return True and
\* give an alert with that id the status 'acknowledged' / 'resolved' when
\* the id is in the bounded alerts buffer; otherwise they return False and
\* the status of every alert, in the buffer and in the history, is what it
\* was.
C20_AcknowledgeResolve ==
    [][(calls' # calls /\ calls'.last.kind \in {"acknowledge", "resolve"}) =>
        LET present == \E i \in 1..Len(alerts) : alerts[i].id = calls'.last.id
        IN /\ calls'.last.returned = present
           /\ Len(alerts') = Len(alerts)
           /\ Len(alert_history') = Len(alert_history)
           /\ present =>
                \E i \in 1..Len(alerts) :
                    /\ alerts[i].id = calls'.last.id
                    /\ alerts'[i].status = MarkStatus(calls'.last.kind)
           /\ ~present =>
                /\ \A i \in 1..Len(alerts) :
                       alerts'[i].status = alerts[i].status
                /\ \A i \in 1..Len(alert_history) :
                       alert_history'[i].status = alert_history[i].status
       ]_vars

\* of two alerts one was acknowledged, then the other resolved
C20_Witness ==
    /\ calls.last # None
    /\ calls.last.kind = "resolve"
    /\ calls.last.returned
    /\ Len(alerts) = 2
    /\ \E i, j \in 1..2 :
          /\ alerts[i].status = "acknowledged"
          /\ alerts[j].status = "resolved"
          /\ alerts[j].id = calls.last.id
          /\ alerts[j].resolved_at = calls.last.time
          /\ alert_history[j] = alerts[j]

\* a probe tick is due at the top of the live loop
TickDue == now - cap.last_interface_check >= interface_check_interval

\* C21: at a probe tick of the live loop that finds the interface up, with
\* a capture handle and no observation since the previous tick, the handle
\* is closed and the loop goes on to create a new one; no packet is read
\* without a handle; and a tick at which observations have arrived since
\* the previous tick closes no handle of an interface that is up.
C21_StuckIsRecreated ==
    [][/\ (cap.pc = "check" /\ cap'.pc \in {"create", "down_wait"}) =>
            /\ (TickDue /\ is_interface_up /\ cap.capture
                  /\ cap.packets_since_last_check = 0)
               => (~cap'.capture /\ ~cap'.capture_iterator
                   /\ cap'.pc = "create")
            /\ (cap.capture /\ ~cap'.capture /\ cap'.pc = "create")
               => (TickDue /\ is_interface_up
                   /\ cap.packets_since_last_check = 0)
       /\ cap'.pc = "next" => cap'.capture /\ cap'.capture_iterator
      ]_vars

\* a tick closed a silent handle as stuck, a new handle was created and a
\* packet has been read through it
C21_Witness ==
    /\ cap.pc = "check"
    /\ cap.closed_by = "stuck"
    /\ cap.capture /\ cap.capture_iterator
    /\ cap.packet_count_captured = 1
    /\ cap.packets_since_last_check = 1
    /\ cap.last_interface_check >= interface_check_interval

\* a step of the live loop that attempts to create a capture handle
\* (pyshark.LiveCapture(...) is called; it succeeds or raises)
CreateAttempt ==
    /\ cap.pc = "create"
    /\ ~(cap.capture /\ cap.capture_iterator)
    /\ cap'.pc \in {"next", "check"}

\* C22: an attempt to create a capture handle that follows a capture error
\* (the previous attempt failed, or the handle was dropped after next()
\* raised) is made at least one probe interval after the previous attempt.
C22_NoRetryStorm ==
    [][(CreateAttempt /\ cap.closed_by \in {"error", "create_failed"})
       => cap.created_at = -1]_vars

\* C23: a capture handle is created only when the last health probe
\* reported the interface up: once a probe has found it down, no attempt is
\* made before a probe finds it up again.
C23_CreateAfterProbeUp ==
    [][CreateAttempt => cap.probe = "up"]_vars

\* the statuses an InterfaceState may have
InterfaceStatuses ==
    {"down", "waiting", "starting", "active", "stuck", "error", "stopped"}

\* C27: the status of every interface entry of the monitor is one of down,
\* waiting, starting, active, stuck, error, stopped.
C27_StatusDomain ==
    \A f \in DOMAIN mon.interfaces :
        mon.interfaces[f].status \in InterfaceStatuses

\* no worker thread is running (none was started, or it has ended)
WorkersEnded == \A f \in IfaceSet : mon.w[f] \in {"none", "done"}

\* C24: start_monitoring returns only after every worker has ended or a
\* stop signal was received, and once stop_monitoring has returned no
\* worker is running or updating the statistics.
C24_StopWaitsForWorkers ==
    /\ mon.main = "returned" => (mon.stops > 0 \/ WorkersEnded)
    /\ mon.stops > 0 => WorkersEnded

\* C25: a stop_monitoring call on the monitor leaves the counters and the
\* interface states as they are and the running flag false, and a second
\* call changes no flag and closes nothing new; the same holds for
\* stop_monitoring and close of a single detector.
C25_StopIdempotent ==
    [][/\ mon'.stops = mon.stops + 1 =>
            /\ ~mon'.running
            /\ mon'.total_packets = mon.total_packets
            /\ mon'.anomalies_detected = mon.anomalies_detected
            /\ mon'.alerts_generated = mon.alerts_generated
            /\ mon'.interfaces = mon.interfaces
            /\ mon'.det = mon.det
            /\ mon.stops >= 1 =>
                 /\ mon'.running = mon.running
                 /\ mon'.det_running = mon.det_running
                 /\ mon'.closed = mon.closed
                 /\ mon'.main = mon.main
       /\ mon'.dstops = mon.dstops + 1 =>
            /\ ~running'
            /\ stats' = stats
            /\ mon.dstops >= 1 => running' = running
      ]_vars

\* the monitor was stopped twice after its workers had published their
\* counters
C25_Witness ==
    /\ mon.stops = 2
    /\ mon.main = "returned"
    /\ mon.total_packets > 0
    /\ \E f \in DOMAIN mon.interfaces :
          mon.interfaces[f].status = "completed" /\ mon.interfaces[f].packets > 0

\* C26: a value returned by get_aggregate_statistics does not change when
\* workers update the statistics later (its per-interface breakdown is
\* what it was at the call), and its total is the sum of its per-interface
\* entries.
C26_SnapshotConsistent ==
    mon.snapshot # None =>
        /\ mon.interfaces = mon.snapshot.taken
        /\ mon.snapshot.total_packets =
             Sum([f \in DOMAIN mon.snapshot.taken |->
                     mon.snapshot.taken[f].packets],
                 DOMAIN mon.snapshot.taken)

\* every lookup of the detection failed: an error dict or an exception
AllLookupsFail ==
    /\ sev.providers # {}
    /\ \A p \in sev.providers :
          /\ sev.src[p].kind \in {"error", "raise"}
          /\ sev.dst_ip => sev.dst[p].kind \in {"error", "raise"}

\* C28: without a provider (threat intelligence disabled, or no provider
\* configured) enrich_detection makes no lookup and the threat score is 0;
\* when every lookup fails the threat score is 0 too; in both cases the
\* alert data get the severity of the anomaly score alone.
C28_NoIntelMeansZero ==
    sev.severity # "unset" =>
        /\ sev.providers = {} => (sev.lookups = 0 /\ sev.threat_score = 0)
        /\ AllLookupsFail => sev.threat_score = 0
        /\ (sev.providers = {} \/ AllLookupsFail)
             => sev.severity = Severity(sev.score, 0)

\* both providers configured, every lookup of both IPs failed, one of them
\* with an exception, and the alert is rated by its anomaly score
C28_Witness ==
    /\ sev.severity = "low"
    /\ sev.score = 95000
    /\ sev.providers = ProviderNames
    /\ sev.dst_ip
    /\ AllLookupsFail
    /\ sev.src["abuseipdb"].kind = "raise"
    /\ sev.lookups = 4
    /\ sev.threat_score = 0

\* the last lookup_ip call found an entry for its IP in the cache
FoundEntry == sev.last # None /\ sev.last.prev # None

\* C29 (as the code has it): a lookup of an IP whose cache entry is younger
\* than cache_ttl returns the cached data without a request and leaves the
\* entry alone; a lookup at or after the expiry makes a request, and
\* replaces the entry and its timestamp when the request succeeds; when
\* the request fails the expired entry stays as it was.
C29_CacheTTL ==
    FoundEntry =>
        IF sev.last.time - sev.last.prev.timestamp < cache_ttl
        THEN /\ ~sev.last.network
             /\ sev.last.returned = sev.last.prev.data
             /\ sev.cache[sev.last.ip] = sev.last.prev
        ELSE /\ sev.last.network
             /\ IF sev.last.returned.kind = "ok"
                THEN sev.cache[sev.last.ip] =
                       [data |-> sev.last.returned, timestamp |-> sev.last.time]
                ELSE sev.cache[sev.last.ip] = sev.last.prev

\* an entry was refreshed, with other data, by the lookup made exactly
\* cache_ttl after it was stored, a cached lookup having come in between
C29_Witness ==
    /\ FoundEntry
    /\ sev.last.time - sev.last.prev.timestamp = cache_ttl
    /\ sev.last.network
    /\ sev.last.returned.kind = "ok"
    /\ sev.last.returned # sev.last.prev.data
    /\ sev.lookups = 3
    /\ sev.requests = 2

\* C29 (as stated): a lookup of an IP whose cache entry is younger than
\* cache_ttl returns the cached data without a request, and a lookup at or
\* after the expiry makes a request and replaces the entry and its
\* timestamp.
C29_ExpiryAlwaysReplaces ==
    FoundEntry =>
        IF sev.last.time - sev.last.prev.timestamp < cache_ttl
        THEN ~sev.last.network /\ sev.last.returned = sev.last.prev.data
        ELSE /\ sev.last.network
             /\ sev.cache[sev.last.ip].timestamp = sev.last.time
             /\ sev.cache[sev.last.ip].data = sev.last.returned

\* C30: within one detector, results are produced and handed to the
\* persistence sink in arrival order: every record written for an
\* observation lies before every record written for a later one, records
\* exist only for observations that have arrived, and the recent-results
\* buffer holds its results in arrival order.
C30_ArrivalOrder ==
    /\ \A i, j \in 1..Len(db) :
         db[i].seq < db[j].seq => i < j
    /\ \A i \in 1..Len(db) : db[i].seq \in 1..stats.total_packets
    /\ \A i, j \in 1..Len(buffer) :
         i < j => buffer[i].seq < buffer[j].seq

\* an anomaly with its two records, then an observation whose processing
\* failed and left none, then a normal observation: three calls, two
\* observations in the sink and in the buffer
C30_Witness ==
    /\ stats.total_packets = 3
    /\ Len(db) = 3
    /\ db[1].seq = 1 /\ db[1].severity # "None"
    /\ db[2].seq = 1 /\ db[2].severity = "None"
    /\ db[3].seq = 3 /\ ~db[3].is_anomaly
    /\ Len(buffer) = 2
    /\ buffer[1].seq = 1 /\ buffer[2].seq = 3

\* C31: in synthetic mode (inject_rate > 0) an observation is forced into
\* the anomalous branch exactly when its injection draw falls below
\* inject_rate, whether it is a port scan or not; a forced anomaly has
\* is_anomaly true and a score in [max(threshold, 0.9), 1.0].
C31_InjectionIndependentOfScan ==
    cap # None /\ cap.synth # None /\ cap.inject_rate > 0 =>
        /\ cap.synth.forced <=> cap.synth.below
        /\ cap.synth.forced /\ cap.pc # "raised" =>
             /\ Len(buffer) > 0
             /\ buffer[Len(buffer)].is_anomaly
             /\ buffer[Len(buffer)].anomaly_score >= SynthScoreLow
             /\ buffer[Len(buffer)].anomaly_score <= 100000

\* the channel a method names is configured completely
Configured(method) ==
    IF method = "email"
    THEN /\ cfg.email.enabled /\ cfg.email.sender_email
         /\ cfg.email.sender_password /\ cfg.email.recipients
    ELSE IF method = "webhook"
    THEN cfg.webhook.enabled /\ cfg.webhook.url
    ELSE TRUE

\* C32: a configured 'email' or 'webhook' method whose channel is not
\* enabled or lacks credentials, recipients or URL attempts no SMTP or HTTP
\* send and raises nothing, and every alert created is still handed to the
\* console and log channels that are configured.
C32_UnconfiguredChannelsAreNoOps ==
    /\ \A i \in 1..Len(notified) :
         notified[i].method \in {"email", "webhook"}
         /\ ~Configured(notified[i].method)
         => notified[i].io = "none" /\ ~notified[i].raised
    /\ \A k \in 1..Len(alert_history) :
         \A j \in 1..Len(cfg.notification_methods) :
           cfg.notification_methods[j] \in {"console", "log"} =>
             \E i \in 1..Len(notified) :
               /\ notified[i].id = alert_history[k].id
               /\ notified[i].method = cfg.notification_methods[j]
               /\ notified[i].io = "none"

\* an alert went through email (enabled, no recipients) and webhook (enabled,
\* no url) before console and log
C32_Witness ==
    /\ cfg.notification_methods = <<"email", "webhook", "console", "log">>
    /\ cfg.email.enabled /\ ~cfg.email.recipients
    /\ cfg.webhook.enabled /\ ~cfg.webhook.url
    /\ Len(alert_history) = 1
    /\ Len(notified) = 4
    /\ notified[1].method = "email" /\ notified[1].io = "none"
    /\ notified[2].method = "webhook" /\ notified[2].io = "none"
    /\ notified[3].method = "console"
    /\ notified[4].method = "log"

\* C33: the cooldown map and the alert history are shared by the workers:
\* two alerts with the same cooldown key raised by the workers of two
\* interfaces are at least alert_cooldown apart, and one history holds the
\* alerts of all workers.
C33_CooldownSharedByWorkers ==
    /\ \A f, g \in DOMAIN mon.am :
         \A i \in 1..Len(mon.am[f].alert_history),
            j \in 1..Len(mon.am[g].alert_history) :
           LET a == mon.am[f].alert_history[i]
               b == mon.am[g].alert_history[j]
           IN f # g /\ a.key = b.key /\ a.time <= b.time
              => b.time - a.time >= alert_cooldown
    /\ \E h \in DOMAIN mon.am :
         \A g \in DOMAIN mon.am :
           \A j \in 1..Len(mon.am[g].alert_history) :
             \E i \in 1..Len(mon.am[h].alert_history) :
               mon.am[h].alert_history[i] = mon.am[g].alert_history[j]

\* C34: in the live capture loop with packet_count set, the captured-packet
\* counter equals the number of packets processed so far, whatever pauses
\* and recreations of the capture handle came in between; it is below
\* packet_count while the session goes on and never above it.
C34_PacketCountKept ==
    cap.backend = "pyshark" /\ cap.packet_count > 0
    /\ cap.pc \in LoopPcs \cup {"returned", "raised"} =>
        /\ cap.packet_count_captured = stats.total_packets
        /\ stats.total_packets <= cap.packet_count
        /\ cap.pc \in LoopPcs => cap.packet_count_captured < cap.packet_count
        /\ cap.exit = "packet_count"
             => cap.packet_count_captured = cap.packet_count

\* the session returned at the packet_count-th packet, its capture handle
\* having been dropped after an error and recreated on the way
C34_Witness ==
    /\ cap.backend = "pyshark"
    /\ cap.packet_count = 2
    /\ cap.pc = "returned" /\ cap.exit = "packet_count"
    /\ cap.closed_by = "error"
    /\ stats.total_packets = 2

\* DatabaseManager.get_stats: SELECT COUNT(*), SUM(is_anomaly)
get_stats ==
    [total |-> Len(db),
     anomalies |-> Len(SelectSeq(db, LAMBDA row : row.is_anomaly))]

\* C35: each processed observation leaves exactly one record in the
\* persistence sink: the sink's record count equals total_packets and its
\* anomaly count equals anomalies_detected.
C35_OneRecordPerObservation ==
    cfg.db_enabled =>
        /\ get_stats.total = stats.total_packets
        /\ get_stats.anomalies = stats.anomalies_detected

\* C36: after any sequence of create_alert, acknowledge_alert and
\* resolve_alert calls, total_alerts is the length of alert_history, the
\* recent-alerts buffer holds the min(total_alerts, maxlen) most recent
\* alerts of the history, the same objects in the same order, and the three
\* severity counters sum to total_alerts when every severity is high,
\* medium or low.
C36_AlertCountersAndBuffer ==
    LET n == Len(alert_history)
        kept == IF n <= alerts_maxlen THEN n ELSE alerts_maxlen
    IN /\ get_statistics.total_alerts = n
       /\ Len(alerts) = kept
       /\ \A i \in 1..kept : alerts[i] = alert_history[n - kept + i]
       /\ (\A i \in 1..n :
             alert_history[i].severity \in {"high", "medium", "low"})
          => get_statistics.high_severity + get_statistics.medium_severity
               + get_statistics.low_severity = n

\* more alerts than the buffer holds were created, and one the buffer still
\* holds was then acknowledged or resolved
C36_Witness ==
    /\ Len(alert_history) = alerts_maxlen + 1
    /\ Len(alerts) = alerts_maxlen
    /\ calls.last.kind \in {"acknowledge", "resolve"}
    /\ calls.last.returned
    /\ \E i \in 1..Len(alerts) :
         alerts[i].id = calls.last.id /\ alerts[i].status # "active"

\* C37: an alert's status is active, acknowledged or resolved, and a
\* resolved alert stays resolved under every acknowledge_alert and
\* resolve_alert call.
C37_StatusMovesForward ==
    [][/\ \A i \in 1..Len(alert_history') :
            alert_history'[i].status \in {"active", "acknowledged", "resolved"}
       /\ \A i \in 1..Len(alert_history) :
            alert_history[i].status = "resolved"
            => alert_history'[i].status = "resolved"
      ]_vars

\* the alerts of the history that the bounded buffer still holds
Recent ==
    LET n == Len(alert_history)
    IN IF n <= alerts_maxlen THEN alert_history
       ELSE SubSeq(alert_history, n - alerts_maxlen + 1, n)

\* C38 (as the code has it): acknowledge_alert(id) and resolve_alert(id)
\* return True exactly when one of the most recent alerts_maxlen alerts of
\* the history has that id; for the id of an alert that newer alerts have
\* pushed out they return False and change no alert; and get_statistics
\* counts the active alerts among the most recent alerts_maxlen only.
C38_OnlyRecentAlertsCanBeMarked ==
    [][/\ (calls' # calls /\ calls'.last.kind \in {"acknowledge", "resolve"})
          => /\ calls'.last.returned
                  <=> \E i \in 1..Len(Recent) : Recent[i].id = calls'.last.id
             /\ ~calls'.last.returned
                  => alert_history' = alert_history /\ alerts' = alerts
       /\ get_statistics'.active_alerts =
            Len(SelectSeq(Recent', LAMBDA a : a.status = "active"))
      ]_vars

\* acknowledge_alert or resolve_alert was called with the id of an alert of
\* the history that has left the bounded buffer, and returned False; the
\* alert is still active
C38_Witness ==
    /\ calls.last.kind \in {"acknowledge", "resolve"}
    /\ ~calls.last.returned
    /\ Len(alert_history) > alerts_maxlen
    /\ alert_history[1].id = calls.last.id
    /\ alert_history[1].status = "active"
    /\ \A i \in 1..Len(alerts) : alerts[i].id # calls.last.id

\* C38 (as stated): acknowledge_alert(id) and resolve_alert(id) return True
\* for the id of every alert the history holds, also when the alert has
\* left the bounded buffer, and get_statistics counts every alert of the
\* history whose status is 'active'.
C38_EveryRecordedAlertCanBeMarked ==
    /\ calls.last # None /\ calls.last.kind \in {"acknowledge", "resolve"}
       /\ (\E i \in 1..Len(alert_history) :
              alert_history[i].id = calls.last.id)
       => calls.last.returned
    /\ get_statistics.active_alerts =
         Len(SelectSeq(alert_history, LAMBDA a : a.status = "active"))

\* C39: a lookup that fails (a status other than 200, or a request
\* exception) has made a request and leaves the cache as it was, an expired
\* entry of its IP included; the lookup of the same IP that follows makes a
\* request again; and every cached entry is a successful result.
C39_OnlySuccessesCached ==
    [][sev'.lookups # sev.lookups =>
        /\ sev'.last.returned.kind = "error"
             => sev'.last.network /\ sev'.cache = sev.cache
        /\ sev.last # None /\ sev.last.returned.kind = "error"
           /\ sev'.last.ip = sev.last.ip
             => sev'.last.network /\ sev'.requests = sev.requests + 1
        /\ \A ip \in DOMAIN sev'.cache : sev'.cache[ip].data.kind = "ok"
      ]_vars

\* a lookup found an expired entry, its request failed, and the entry is
\* still the expired one
C39_Witness ==
    /\ sev.last # None
    /\ sev.last.prev # None
    /\ sev.last.time - sev.last.prev.timestamp >= cache_ttl
    /\ sev.last.network
    /\ sev.last.returned.kind = "error"
    /\ sev.cache[sev.last.ip] = sev.last.prev

=============================================================================
